---------------------------- MODULE Spec2Model ----------------------------
(***************************************************************************)
(* A model of the SentimentAgent cognitive cycle (src/src/agent.py):       *)
(* CoreMind.perceive / respond, MemorySystem (load, save, recall, store),  *)
(* InternalDialogue.contemplate and the orchestrator SentimentAgent.think. *)
(*                                                                         *)
(* Representation.                                                         *)
(*  - A Python str is a sequence of one-character strings, so that lower,  *)
(*    split, slicing and the substring test are computed, not assumed.     *)
(*  - A float is a fixed-point integer: confidence, emotional_valence,     *)
(*    emotional_impact and complexity count units of 1/Scale; importance   *)
(*    counts units of 1/(10*Scale), which keeps the weighted sum of        *)
(*    _calculate_importance exact.  Divisions round down.                  *)
(*  - A datetime is [sec, us]; its ISO-8601 text is "T<sec>" when us = 0   *)
(*    and "T<sec>.<us>" otherwise, as datetime.isoformat omits a zero      *)
(*    microsecond part (the date part is left out).                        *)
(*  - The JSON file is [kind, data]: absent, unparsable text, a JSON       *)
(*    document that is not a list of objects, or a list of objects.        *)
(***************************************************************************)
EXTENDS Integers, Sequences, FiniteSets, TLC

(***************************************************************************)
(* Bounds of the model                                                     *)
(***************************************************************************)
\* think calls made on the agent in one behaviour
MaxThinks == 2

\* store calls made on the memory system on its own in one behaviour
MaxStores == 1

\* thoughts passed to such a store call
MaxStoreThoughts == 2

\* calls made on CoreMind and InternalDialogue on their own in one behaviour
MaxCalls == 1

\* think calls started together as tasks of one event loop
MaxTasks == 2

(***************************************************************************)
(* str                                                                     *)
(***************************************************************************)
UPPER == <<"A", "B", "C", "D", "E", "F", "G", "H", "I", "J", "K", "L", "M",
           "N", "O", "P", "Q", "R", "S", "T", "U", "V", "W", "X", "Y", "Z">>

LOWER == <<"a", "b", "c", "d", "e", "f", "g", "h", "i", "j", "k", "l", "m",
           "n", "o", "p", "q", "r", "s", "t", "u", "v", "w", "x", "y", "z">>

\* str.lower() of one character
LowerOf == [c \in {UPPER[i] : i \in 1..26} |-> LOWER[CHOOSE i \in 1..26 : UPPER[i] = c]]

LowerChar(c) == IF c \in DOMAIN LowerOf THEN LowerOf[c] ELSE c

\* str.lower()
Lower(s) == [i \in 1..Len(s) |-> LowerChar(s[i])]

\* s[:n] for n >= 0
Prefix(s, n) == IF Len(s) <= n THEN s ELSE SubSeq(s, 1, n)

\* s[-n:]: Python reads -0 as 0, so s[-0:] is the whole of s
Suffix(s, n) ==
    IF n = 0 \/ Len(s) <= n THEN s ELSE SubSeq(s, Len(s) - n + 1, Len(s))

\* `w in s` for two str: w occurs in s as a substring
Contains(s, w) ==
    \E i \in 1..(Len(s) - Len(w) + 1) : \A k \in 1..Len(w) : s[i + k - 1] = w[k]

IsSpace(c) == c = " "

\* str.split() from position i on: the maximal runs of non-whitespace
\* characters, in order
RECURSIVE SplitFrom(_, _)
SplitFrom(s, i) ==
    IF \A j \in i..Len(s) : IsSpace(s[j]) THEN <<>>
    ELSE LET start == CHOOSE j \in i..Len(s) :
                          ~IsSpace(s[j]) /\ \A k \in i..(j - 1) : IsSpace(s[k])
             end == IF \E j \in start..Len(s) : IsSpace(s[j])
                    THEN (CHOOSE j \in start..Len(s) :
                              IsSpace(s[j]) /\ \A k \in start..(j - 1) : ~IsSpace(s[k])) - 1
                    ELSE Len(s)
         IN  <<SubSeq(s, start, end)>> \o SplitFrom(s, end + 1)

\* str.split()
Split(s) == SplitFrom(s, 1)

\* `x in xs` for a list xs
InList(x, xs) == \E i \in 1..Len(xs) : xs[i] = x

\* " ".join(parts)
RECURSIVE JoinSpace(_)
JoinSpace(parts) ==
    IF parts = <<>> THEN <<>>
    ELSE IF Len(parts) = 1 THEN parts[1]
         ELSE parts[1] \o <<" ">> \o JoinSpace(Tail(parts))

(***************************************************************************)
(* String literals of the source                                           *)
(***************************************************************************)
\* think's fallback reply (agent.py:491): "I'm having trouble processing that right now. Could you rephrase it?"
FALLBACK_REPLY ==
    <<"I", "'", "m", " ", "h", "a", "v", "i", "n", "g", " ", "t", "r", "o", "u", "b", "l", "e", " ",
       "p", "r", "o", "c", "e", "s", "s", "i", "n", "g", " ", "t", "h", "a", "t", " ", "r", "i", "g",
       "h", "t", " ", "n", "o", "w", ".", " ", "C", "o", "u", "l", "d", " ", "y", "o", "u", " ", "r",
       "e", "p", "h", "r", "a", "s", "e", " ", "i", "t", "?">>

\* respond's reply to an empty thought list (agent.py:144): "I'm still processing that... give me a moment to think."
PLACEHOLDER_REPLY ==
    <<"I", "'", "m", " ", "s", "t", "i", "l", "l", " ", "p", "r", "o", "c", "e", "s", "s", "i", "n",
       "g", " ", "t", "h", "a", "t", ".", ".", ".", " ", "g", "i", "v", "e", " ", "m", "e", " ", "a",
       " ", "m", "o", "m", "e", "n", "t", " ", "t", "o", " ", "t", "h", "i", "n", "k", ".">>

\* agent.py:150: "From my perspective, "
RESPONSE_PREFIX ==
    <<"F", "r", "o", "m", " ", "m", "y", " ", "p", "e", "r", "s", "p", "e", "c", "t", "i", "v", "e",
       ",", " ">>

\* agent.py:156: "I also consider that "
SUPPORT_PREFIX ==
    <<"I", " ", "a", "l", "s", "o", " ", "c", "o", "n", "s", "i", "d", "e", "r", " ", "t", "h", "a",
       "t", " ">>

\* agent.py:247: "Input: "
CONTENT_INPUT ==
    <<"I", "n", "p", "u", "t", ":", " ">>

\* agent.py:247: " | Response: "
CONTENT_RESPONSE ==
    <<" ", "|", " ", "R", "e", "s", "p", "o", "n", "s", "e", ":", " ">>

\* agent.py:337: "This touches on something fundamental that I should consider carefully"
REACTION_PHILOSOPHICAL ==
    <<"T", "h", "i", "s", " ", "t", "o", "u", "c", "h", "e", "s", " ", "o", "n", " ", "s", "o", "m",
       "e", "t", "h", "i", "n", "g", " ", "f", "u", "n", "d", "a", "m", "e", "n", "t", "a", "l", " ",
       "t", "h", "a", "t", " ", "I", " ", "s", "h", "o", "u", "l", "d", " ", "c", "o", "n", "s", "i",
       "d", "e", "r", " ", "c", "a", "r", "e", "f", "u", "l", "l", "y">>

\* agent.py:340: "I need to access what I know about this topic"
REACTION_INQUIRY ==
    <<"I", " ", "n", "e", "e", "d", " ", "t", "o", " ", "a", "c", "c", "e", "s", "s", " ", "w", "h",
       "a", "t", " ", "I", " ", "k", "n", "o", "w", " ", "a", "b", "o", "u", "t", " ", "t", "h", "i",
       "s", " ", "t", "o", "p", "i", "c">>

\* agent.py:343: "Let me process what this person is communicating to me"
REACTION_OTHER ==
    <<"L", "e", "t", " ", "m", "e", " ", "p", "r", "o", "c", "e", "s", "s", " ", "w", "h", "a", "t",
       " ", "t", "h", "i", "s", " ", "p", "e", "r", "s", "o", "n", " ", "i", "s", " ", "c", "o", "m",
       "m", "u", "n", "i", "c", "a", "t", "i", "n", "g", " ", "t", "o", " ", "m", "e">>

\* agent.py:358: "I don't have much prior experience with this topic"
NO_EXPERIENCE ==
    <<"I", " ", "d", "o", "n", "'", "t", " ", "h", "a", "v", "e", " ", "m", "u", "c", "h", " ", "p",
       "r", "i", "o", "r", " ", "e", "x", "p", "e", "r", "i", "e", "n", "c", "e", " ", "w", "i", "t",
       "h", " ", "t", "h", "i", "s", " ", "t", "o", "p", "i", "c">>

\* agent.py:366: "This reminds me of previous experiences, particularly around "
REMINDS_PREFIX ==
    <<"T", "h", "i", "s", " ", "r", "e", "m", "i", "n", "d", "s", " ", "m", "e", " ", "o", "f", " ",
       "p", "r", "e", "v", "i", "o", "u", "s", " ", "e", "x", "p", "e", "r", "i", "e", "n", "c", "e",
       "s", ",", " ", "p", "a", "r", "t", "i", "c", "u", "l", "a", "r", "l", "y", " ", "a", "r", "o",
       "u", "n", "d", " ">>

\* agent.py:366: "..."
ELLIPSIS ==
    <<".", ".", ".">>

\* agent.py:378: "I notice I'm approaching this in a particular way - let me consider if there are other perspectives"
META_CONTENT ==
    <<"I", " ", "n", "o", "t", "i", "c", "e", " ", "I", "'", "m", " ", "a", "p", "p", "r", "o", "a",
       "c", "h", "i", "n", "g", " ", "t", "h", "i", "s", " ", "i", "n", " ", "a", " ", "p", "a", "r",
       "t", "i", "c", "u", "l", "a", "r", " ", "w", "a", "y", " ", "-", " ", "l", "e", "t", " ", "m",
       "e", " ", "c", "o", "n", "s", "i", "d", "e", "r", " ", "i", "f", " ", "t", "h", "e", "r", "e",
       " ", "a", "r", "e", " ", "o", "t", "h", "e", "r", " ", "p", "e", "r", "s", "p", "e", "c", "t",
       "i", "v", "e", "s">>

\* agent.py:393: "I wonder about the deeper implications of "
WONDER_PREFIX ==
    <<"I", " ", "w", "o", "n", "d", "e", "r", " ", "a", "b", "o", "u", "t", " ", "t", "h", "e", " ",
       "d", "e", "e", "p", "e", "r", " ", "i", "m", "p", "l", "i", "c", "a", "t", "i", "o", "n", "s",
       " ", "o", "f", " ">>

\* agent.py:393: " in this context"
WONDER_SUFFIX ==
    <<" ", "i", "n", " ", "t", "h", "i", "s", " ", "c", "o", "n", "t", "e", "x", "t">>

\* agent.py:395: "There might be layers to this that I haven't considered yet"
WONDER_GENERIC ==
    <<"T", "h", "e", "r", "e", " ", "m", "i", "g", "h", "t", " ", "b", "e", " ", "l", "a", "y", "e",
       "r", "s", " ", "t", "o", " ", "t", "h", "i", "s", " ", "t", "h", "a", "t", " ", "I", " ", "h",
       "a", "v", "e", "n", "'", "t", " ", "c", "o", "n", "s", "i", "d", "e", "r", "e", "d", " ", "y",
       "e", "t">>

\* self_reflect's prompt (agent.py:517): "How am I developing as a thinking entity? What patterns do I notice in my own thoughts?"
reflection_prompt ==
    <<"H", "o", "w", " ", "a", "m", " ", "I", " ", "d", "e", "v", "e", "l", "o", "p", "i", "n", "g",
       " ", "a", "s", " ", "a", " ", "t", "h", "i", "n", "k", "i", "n", "g", " ", "e", "n", "t", "i",
       "t", "y", "?", " ", "W", "h", "a", "t", " ", "p", "a", "t", "t", "e", "r", "n", "s", " ", "d",
       "o", " ", "I", " ", "n", "o", "t", "i", "c", "e", " ", "i", "n", " ", "m", "y", " ", "o", "w",
       "n", " ", "t", "h", "o", "u", "g", "h", "t", "s", "?">>

\* _analyze_emotion's word lists (agent.py:101-102)
positive_words ==
    <<<<"h", "a", "p", "p", "y">>,
      <<"j", "o", "y">>,
      <<"l", "o", "v", "e">>,
      <<"g", "o", "o", "d">>,
      <<"e", "x", "c", "e", "l", "l", "e", "n", "t">>,
      <<"w", "o", "n", "d", "e", "r", "f", "u", "l">>>>

negative_words ==
    <<<<"s", "a", "d">>,
      <<"a", "n", "g", "r", "y">>,
      <<"h", "a", "t", "e">>,
      <<"b", "a", "d">>,
      <<"t", "e", "r", "r", "i", "b", "l", "e">>,
      <<"a", "w", "f", "u", "l">>>>

WHAT == <<"w", "h", "a", "t">>
HOW == <<"h", "o", "w">>
WHY == <<"w", "h", "y">>

(***************************************************************************)
(* float and datetime                                                      *)
(***************************************************************************)
\* units per 1.0 of confidence, emotional_valence, emotional_impact, complexity
Scale == 10 * 960

\* n/10 as a float
Tenths(n) == n * (Scale \div 10)

\* 1.0 as an importance (units of 1/(10*Scale))
ImportanceOne == 10 * Scale

Abs(x) == IF x < 0 THEN 0 - x ELSE x

Min(a, b) == IF b < a THEN b ELSE a

\* max(xs, default=0) over a list of numbers
RECURSIVE MaxOf(_)
MaxOf(xs) ==
    IF xs = <<>> THEN 0
    ELSE IF Len(xs) = 1 THEN xs[1]
         ELSE LET rest == MaxOf(Tail(xs)) IN IF rest > xs[1] THEN rest ELSE xs[1]

\* sum(xs)
RECURSIVE SumOf(_)
SumOf(xs) == IF xs = <<>> THEN 0 ELSE xs[1] + SumOf(Tail(xs))

DIGITS == <<"0", "1", "2", "3", "4", "5", "6", "7", "8", "9">>

IsDigit(c) == \E i \in 1..10 : DIGITS[i] = c

DigitValue(c) == (CHOOSE i \in 1..10 : DIGITS[i] = c) - 1

\* datetime.now() when the clock shows tick c: three ticks to the second
DateTimeAt(c) == [sec |-> c \div 3, us |-> (c % 3) * 3]

\* isoformat as strftime("%Y-%m-%dT%H:%M:%S") would write it: the microseconds are lost
isoformat_without_microseconds(t) == <<"T", DIGITS[t.sec + 1]>>

\* datetime.isoformat(): the microsecond part is written only when non-zero
isoformat(t) ==
    <<"T", DIGITS[t.sec + 1]>> \o (IF t.us = 0 THEN <<>> ELSE <<".", DIGITS[t.us + 1]>>)

\* the texts datetime.fromisoformat accepts; any other raises ValueError
IsIsoFormat(s) ==
    \/ Len(s) = 2 /\ s[1] = "T" /\ IsDigit(s[2])
    \/ Len(s) = 4 /\ s[1] = "T" /\ IsDigit(s[2]) /\ s[3] = "." /\ IsDigit(s[4])

\* datetime.fromisoformat(s) for an accepted text
fromisoformat(s) ==
    [sec |-> DigitValue(s[2]), us |-> IF Len(s) = 4 THEN DigitValue(s[4]) ELSE 0]

\* t1 < t2 on datetime
DateTimeLess(t1, t2) == t1.sec < t2.sec \/ (t1.sec = t2.sec /\ t1.us < t2.us)

\* dict.get(key, default)
Get(dict, key, default) == IF key \in DOMAIN dict THEN dict[key] ELSE default

(***************************************************************************)
(* CoreMind                                                                *)
(***************************************************************************)
\* sum(1 for word in words if word in text_lower)
CountHits(words, text_lower) ==
    Cardinality({i \in 1..Len(words) : Contains(text_lower, words[i])})

analyze_emotion(text) ==
    LET text_lower == Lower(text)
        positive_count == CountHits(positive_words, text_lower)
        negative_count == CountHits(negative_words, text_lower)
    IN  IF positive_count > negative_count THEN "positive"
        ELSE IF negative_count > positive_count THEN "negative"
        ELSE "neutral"

IsImportantWord(word) == Len(word) > 4

extract_concepts(text) ==
    LET words == Split(Lower(text))
        important_words == SelectSeq(words, IsImportantWord)
    IN  Prefix(important_words, 5)

classify_question(text) ==
    LET text_lower == Lower(text)
    IN  IF Contains(text_lower, WHAT) \/ Contains(text_lower, HOW) THEN "inquiry"
        ELSE IF Contains(text_lower, WHY) THEN "philosophical"
        ELSE IF Contains(text, <<"?">>) THEN "question"
        ELSE "statement"

perceive(stimulus) ==
    [raw_input        |-> stimulus,
     detected_emotion |-> analyze_emotion(stimulus),
     key_concepts     |-> extract_concepts(stimulus),
     question_type    |-> classify_question(stimulus),
     complexity       |-> Tenths(Len(Split(stimulus)))]

\* max written as a loop that replaces the best so far on >=: the last thought of
\* greatest confidence
MainIndex_last_wins(thoughts) ==
    CHOOSE i \in 1..Len(thoughts) :
        /\ \A j \in 1..Len(thoughts) : thoughts[j].confidence <= thoughts[i].confidence
        /\ \A j \in (i + 1)..Len(thoughts) : thoughts[j].confidence < thoughts[i].confidence

\* max(thoughts, key=lambda t: t.confidence): the first thought of greatest confidence
MainIndex(thoughts) ==
    CHOOSE i \in 1..Len(thoughts) :
        /\ \A j \in 1..Len(thoughts) : thoughts[j].confidence <= thoughts[i].confidence
        /\ \A j \in 1..(i - 1) : thoughts[j].confidence < thoughts[i].confidence

respond(thoughts) ==
    IF thoughts = <<>> THEN PLACEHOLDER_REPLY
    ELSE LET main_thought == thoughts[MainIndex(thoughts)]
             IsSupporting(t) == t.confidence > Tenths(7) /\ t # main_thought
             supporting_thoughts == SelectSeq(thoughts, IsSupporting)
             response_parts ==
                 <<RESPONSE_PREFIX \o Lower(main_thought.content)>>
                 \o (IF supporting_thoughts # <<>>
                     THEN <<SUPPORT_PREFIX \o Lower(supporting_thoughts[1].content)>>
                     ELSE <<>>)
         IN  JoinSpace(response_parts)

(***************************************************************************)
(* MemorySystem                                                            *)
(***************************************************************************)
MemoryKeys ==
    {"content", "timestamp", "memory_type", "importance", "emotional_impact",
     "related_thoughts"}

\* the Memory(...) built from one JSON object (agent.py:183-190)
MemoryFromJson(m) ==
    [content          |-> m.content,
     timestamp        |-> fromisoformat(m.timestamp),
     memory_type      |-> m.memory_type,
     importance       |-> m.importance,
     emotional_impact |-> m.emotional_impact,
     related_thoughts |-> m.related_thoughts]

\* building the Memory raises: a key is missing or the timestamp does not parse
JsonRaises(m) == ~(MemoryKeys \subseteq DOMAIN m) \/ ~IsIsoFormat(m.timestamp)

\* _load_memories appending record by record: the records before a malformed one stay
RECURSIVE ParseRecords_keeps_prefix(_)
ParseRecords_keeps_prefix(data) ==
    IF data = <<>> THEN [raised |-> FALSE, memories |-> <<>>]
    ELSE IF JsonRaises(data[1]) THEN [raised |-> FALSE, memories |-> <<>>]
    ELSE LET rest == ParseRecords_keeps_prefix(Tail(data))
         IN  [raised |-> FALSE, memories |-> <<MemoryFromJson(data[1])>> \o rest.memories]

\* the list comprehension of _load_memories: it yields the whole list or raises
RECURSIVE ParseRecords(_)
ParseRecords(data) ==
    IF data = <<>> THEN [raised |-> FALSE, memories |-> <<>>]
    ELSE IF JsonRaises(data[1]) THEN [raised |-> TRUE, memories |-> <<>>]
    ELSE LET rest == ParseRecords(Tail(data))
         IN  IF rest.raised THEN rest
             ELSE [raised |-> FALSE, memories |-> <<MemoryFromJson(data[1])>> \o rest.memories]

\* _load_memories: the new value of self.memories, and whether the call raised
load_memories(file, memories) ==
    IF file.kind = "absent" THEN [memories |-> memories, raised |-> FALSE]
    ELSE IF file.kind # "list" THEN [memories |-> memories, raised |-> FALSE]
    ELSE LET parsed == ParseRecords(file.data)
         IN  IF parsed.raised THEN [memories |-> memories, raised |-> FALSE]
             ELSE [memories |-> parsed.memories, raised |-> FALSE]

\* asdict(memory) with the timestamp replaced by its ISO text (agent.py:201-203)
MemoryToJson(memory) ==
    [content          |-> memory.content,
     timestamp        |-> isoformat(memory.timestamp),
     memory_type      |-> memory.memory_type,
     importance       |-> memory.importance,
     emotional_impact |-> memory.emotional_impact,
     related_thoughts |-> memory.related_thoughts]

\* what open(.., 'w') and json.dump can do: succeed, fail to open, fail while writing
IoOutcomes == {"ok", "open_fails", "write_fails"}

\* _save_memories without its except clause: an I/O error leaves the call
save_memories_raises(memories, file, io) ==
    LET memory_data == [i \in 1..Len(memories) |-> MemoryToJson(memories[i])]
    IN  IF io = "ok"
        THEN [file |-> [kind |-> "list", data |-> memory_data], saved |-> TRUE, raised |-> FALSE]
        ELSE IF io = "open_fails"
        THEN [file |-> file, saved |-> FALSE, raised |-> TRUE]
        ELSE [file |-> [kind |-> "garbage", data |-> <<>>], saved |-> FALSE, raised |-> TRUE]

\* _save_memories writing the newest memory only
save_memories_writes_last(memories, file, io) ==
    LET memory_data == [i \in 1..Len(memories) |-> MemoryToJson(memories[i])]
    IN  IF io = "ok"
        THEN [file |-> [kind |-> "list", data |-> Suffix(memory_data, 1)],
              saved |-> TRUE, raised |-> FALSE]
        ELSE IF io = "open_fails"
        THEN [file |-> file, saved |-> FALSE, raised |-> FALSE]
        ELSE [file |-> [kind |-> "garbage", data |-> <<>>], saved |-> FALSE, raised |-> FALSE]

\* _save_memories: the new file, whether the save went through, whether the call raised
save_memories(memories, file, io) ==
    LET memory_data == [i \in 1..Len(memories) |-> MemoryToJson(memories[i])]
    IN  IF io = "ok"
        THEN [file |-> [kind |-> "list", data |-> memory_data], saved |-> TRUE, raised |-> FALSE]
        ELSE IF io = "open_fails"
        THEN [file |-> file, saved |-> FALSE, raised |-> FALSE]
        ELSE [file |-> [kind |-> "garbage", data |-> <<>>], saved |-> FALSE, raised |-> FALSE]

\* (a.importance, a.timestamp) < (b.importance, b.timestamp)
KeyLess(a, b) ==
    \/ a.importance < b.importance
    \/ a.importance = b.importance /\ DateTimeLess(a.timestamp, b.timestamp)

\* the sort step without reverse=True: m goes behind every element whose key is not greater
RECURSIVE InsertAscending(_, _)
InsertAscending(sorted, m) ==
    IF sorted = <<>> THEN <<m>>
    ELSE IF KeyLess(m, sorted[1]) THEN <<m>> \o sorted
    ELSE <<sorted[1]>> \o InsertAscending(Tail(sorted), m)

\* one step of the stable descending sort: m goes behind every element whose key is not smaller
RECURSIVE InsertDescending(_, _)
InsertDescending(sorted, m) ==
    IF sorted = <<>> THEN <<m>>
    ELSE IF KeyLess(sorted[1], m) THEN <<m>> \o sorted
    ELSE <<sorted[1]>> \o InsertDescending(Tail(sorted), m)

\* list.sort(key=lambda m: (m.importance, m.timestamp), reverse=True)
RECURSIVE SortDescending(_, _)
SortDescending(xs, sorted) ==
    IF xs = <<>> THEN sorted
    ELSE SortDescending(Tail(xs), InsertDescending(sorted, xs[1]))

\* the relevance test with the content taken as one word, without split()
IsRelevant_whole_content(memory, key_concepts) ==
    LET memory_words == <<Lower(memory.content)>>
    IN  \E i \in 1..Len(key_concepts) : InList(key_concepts[i], memory_words)

\* the relevance test on memory.content.split(), without lower()
IsRelevant_case_sensitive(memory, key_concepts) ==
    LET memory_words == Split(memory.content)
    IN  \E i \in 1..Len(key_concepts) : InList(key_concepts[i], memory_words)

\* any(concept in memory_words for concept in key_concepts)
IsRelevant(memory, key_concepts) ==
    LET memory_words == Split(Lower(memory.content))
    IN  \E i \in 1..Len(key_concepts) : InList(key_concepts[i], memory_words)

recall(memories, perception) ==
    LET key_concepts == Get(perception, "key_concepts", <<>>)
        Matches(memory) == IsRelevant(memory, key_concepts)
        relevant_memories == SelectSeq(memories, Matches)
    IN  Prefix(SortDescending(relevant_memories, <<>>), 3)

calculate_importance(perception, thoughts) ==
    LET complexity == Get(perception, "complexity", 0)
        max_confidence == MaxOf([i \in 1..Len(thoughts) |-> thoughts[i].confidence])
        emotional_intensity ==
            MaxOf([i \in 1..Len(thoughts) |-> Abs(thoughts[i].emotional_valence)])
        importance == complexity * 3 + max_confidence * 4 + emotional_intensity * 3
    IN  Min(importance, ImportanceOne)

\* _calculate_emotional_impact returning the sum of the valences, not their mean
calculate_emotional_impact_sums(thoughts) ==
    IF thoughts = <<>> THEN 0
    ELSE LET emotional_values == [i \in 1..Len(thoughts) |-> thoughts[i].emotional_valence]
         IN  SumOf(emotional_values)

calculate_emotional_impact(thoughts) ==
    IF thoughts = <<>> THEN 0
    ELSE LET emotional_values == [i \in 1..Len(thoughts) |-> thoughts[i].emotional_valence]
         IN  SumOf(emotional_values) \div Len(emotional_values)

\* the Memory built with the first thought in the place of the response
NewMemory_records_thought(perception, thoughts, response, now) ==
    [content          |-> CONTENT_INPUT \o perception.raw_input \o CONTENT_RESPONSE
                          \o (IF thoughts = <<>> THEN response ELSE thoughts[1].content),
     timestamp        |-> now,
     memory_type      |-> "episodic",
     importance       |-> calculate_importance(perception, thoughts),
     emotional_impact |-> calculate_emotional_impact(thoughts),
     related_thoughts |-> LET top == Prefix(thoughts, 2)
                          IN  [i \in 1..Len(top) |-> top[i].content]]

\* the Memory store builds (agent.py:246-253)
NewMemory(perception, thoughts, response, now) ==
    [content          |-> CONTENT_INPUT \o perception.raw_input \o CONTENT_RESPONSE \o response,
     timestamp        |-> now,
     memory_type      |-> "episodic",
     importance       |-> calculate_importance(perception, thoughts),
     emotional_impact |-> calculate_emotional_impact(thoughts),
     related_thoughts |-> LET top == Prefix(thoughts, 2)
                          IN  [i \in 1..Len(top) |-> top[i].content]]

\* store appending the Memory before it is complete: an exception raised while
\* it is built leaves it in the list
store_appends_first(memories, memory_file, perception, thoughts, response, now, io, fault) ==
    LET memory == NewMemory(perception, thoughts, response, now)
        appended == Append(memories, memory)
        save == save_memories(appended, memory_file, io)
    IN  IF fault = "build"
        THEN [memories |-> appended, memory_file |-> memory_file, saved |-> "none",
              raised |-> TRUE]
        ELSE [memories |-> appended, memory_file |-> save.file, saved |-> io,
              raised |-> save.raised \/ fault = "log"]

\* store putting the new Memory at the head of the list
store_prepends(memories, memory_file, perception, thoughts, response, now, io, fault) ==
    IF fault = "build"
    THEN [memories |-> memories, memory_file |-> memory_file, saved |-> "none",
          raised |-> TRUE]
    ELSE LET memory == NewMemory(perception, thoughts, response, now)
             appended == <<memory>> \o memories
             save == save_memories(appended, memory_file, io)
         IN  [memories |-> appended, memory_file |-> save.file, saved |-> io,
              raised |-> save.raised \/ fault = "log"]

\* MemorySystem.store.  `fault` names the statement an exception leaves store
\* from: "build" while the Memory is built (agent.py:246-253), "log" at the
\* closing log call (agent.py:258), "none" when no statement raises.  Yields
\* the new memories and file, what the save did, and whether store raised.
store(memories, memory_file, perception, thoughts, response, now, io, fault) ==
    IF fault = "build"
    THEN [memories |-> memories, memory_file |-> memory_file, saved |-> "none",
          raised |-> TRUE]
    ELSE LET memory == NewMemory(perception, thoughts, response, now)
             appended == Append(memories, memory)
             save == save_memories(appended, memory_file, io)
         IN  [memories |-> appended, memory_file |-> save.file, saved |-> io,
              raised |-> save.raised \/ fault = "log"]

(***************************************************************************)
(* InternalDialogue                                                        *)
(***************************************************************************)
personality_traits ==
    [curiosity     |-> Tenths(8),
     empathy       |-> Tenths(7),
     skepticism    |-> Tenths(6),
     creativity    |-> Tenths(5),
     introspection |-> Tenths(9)]

Thought(content, timestamp, thought_type, confidence, emotional_valence) ==
    [content |-> content, timestamp |-> timestamp, thought_type |-> thought_type,
     confidence |-> confidence, emotional_valence |-> emotional_valence]

\* _generate_initial_reaction reading perception['question_type'] written with a
\* default of "inquiry" for a missing key
generate_initial_reaction_defaults_to_inquiry(perception, now) ==
    LET question_type == Get(perception, "question_type", "inquiry")
    IN  IF question_type = "philosophical"
        THEN Thought(REACTION_PHILOSOPHICAL, now, "observation", Tenths(8), Tenths(1))
        ELSE IF question_type = "inquiry"
        THEN Thought(REACTION_INQUIRY, now, "observation", Tenths(9), Tenths(1))
        ELSE Thought(REACTION_OTHER, now, "observation", Tenths(7), Tenths(1))

generate_initial_reaction(perception, now) ==
    LET question_type == Get(perception, "question_type", "statement")
    IN  IF question_type = "philosophical"
        THEN Thought(REACTION_PHILOSOPHICAL, now, "observation", Tenths(8), Tenths(1))
        ELSE IF question_type = "inquiry"
        THEN Thought(REACTION_INQUIRY, now, "observation", Tenths(9), Tenths(1))
        ELSE Thought(REACTION_OTHER, now, "observation", Tenths(7), Tenths(1))

\* _reflect_on_memories taking memories[-1], the least relevant of the recalled
reflect_on_memories_takes_last(memories, perception, now) ==
    IF memories = <<>>
    THEN Thought(NO_EXPERIENCE, now, "reflection", Tenths(6), 0 - Tenths(1))
    ELSE LET most_relevant == memories[Len(memories)]
         IN  Thought(REMINDS_PREFIX \o Prefix(most_relevant.content, 50) \o ELLIPSIS,
                     now, "reflection", Tenths(8), most_relevant.emotional_impact \div 2)

reflect_on_memories(memories, perception, now) ==
    IF memories = <<>>
    THEN Thought(NO_EXPERIENCE, now, "reflection", Tenths(6), 0 - Tenths(1))
    ELSE LET most_relevant == memories[1]
         IN  Thought(REMINDS_PREFIX \o Prefix(most_relevant.content, 50) \o ELLIPSIS,
                     now, "reflection", Tenths(8), most_relevant.emotional_impact \div 2)

meta_reflection(perception, existing_thoughts, now) ==
    Thought(META_CONTENT, now, "meta-reflection", Tenths(7), Tenths(2))

generate_curious_thought(perception, now) ==
    LET concepts == Get(perception, "key_concepts", <<>>)
    IN  Thought(IF concepts # <<>>
                THEN WONDER_PREFIX \o concepts[1] \o WONDER_SUFFIX
                ELSE WONDER_GENERIC,
                now, "question", Tenths(6), Tenths(3))

\* the thoughts contemplate generates; the first reads the clock at `first`,
\* the later ones at `later`
contemplate(perception, memories, personality, first, later) ==
    LET initial == <<generate_initial_reaction(perception, first)>>
        withMemory ==
            IF memories # <<>>
            THEN Append(initial, reflect_on_memories(memories, perception, later))
            ELSE initial
        withMeta ==
            IF personality_traits.introspection > Tenths(7)
            THEN Append(withMemory, meta_reflection(perception, withMemory, later))
            ELSE withMemory
    IN  IF personality_traits.curiosity > Tenths(6)
        THEN Append(withMeta, generate_curious_thought(perception, later))
        ELSE withMeta

\* get_recent_thoughts(limit)
get_recent_thoughts(thoughts, limit) ==
    IF thoughts # <<>> THEN Suffix(thoughts, limit) ELSE <<>>

(***************************************************************************)
(* Inputs: the stimuli passed to think and the files found at construction *)
(***************************************************************************)
\* "Why trust memory?"
STIMULUS_WHY ==
    <<"W", "h", "y", " ", "t", "r", "u", "s", "t", " ", "m", "e", "m", "o", "r", "y", "?">>

\* "I love this wonderful day"
STIMULUS_LOVE ==
    <<"I", " ", "l", "o", "v", "e", " ", "t", "h", "i", "s", " ", "w", "o", "n", "d", "e", "r",
       "f", "u", "l", " ", "d", "a", "y">>

Stimuli == {STIMULUS_WHY, STIMULUS_LOVE}

\* one JSON object of the file
JsonMemory(content, timestamp, importance, emotional_impact) ==
    [content          |-> content,
     timestamp        |-> timestamp,
     memory_type      |-> "episodic",
     importance       |-> importance,
     emotional_impact |-> emotional_impact,
     related_thoughts |-> <<>>]

\* content "Input: trust me | Response: ok", timestamp "T0", importance 0.5, emotional_impact 0.2
RECORD_1 ==
    JsonMemory(<<"I", "n", "p", "u", "t", ":", " ", "t", "r", "u", "s", "t", " ", "m", "e", " ", "|", " ",
                 "R", "e", "s", "p", "o", "n", "s", "e", ":", " ", "o", "k">>,
               <<"T", "0">>, 10 * Tenths(5), Tenths(2))

\* content "memory? trust", timestamp "T0.5", importance 0.5, emotional_impact -0.4
RECORD_2 ==
    JsonMemory(<<"m", "e", "m", "o", "r", "y", "?", " ", "t", "r", "u", "s", "t">>,
               <<"T", "0", ".", "5">>, 10 * Tenths(5), 0 - Tenths(4))

\* content "Trust wonderful", timestamp "T1", importance 0.9, emotional_impact 0.0
RECORD_3 ==
    JsonMemory(<<"T", "r", "u", "s", "t", " ", "w", "o", "n", "d", "e", "r", "f", "u", "l">>,
               <<"T", "1">>, 10 * Tenths(9), Tenths(0))

\* content "trust again", timestamp "T0", importance 0.5, emotional_impact 2.0
RECORD_4 ==
    JsonMemory(<<"t", "r", "u", "s", "t", " ", "a", "g", "a", "i", "n">>,
               <<"T", "0">>, 10 * Tenths(5), Tenths(20))

\* content "other thing", timestamp "T1.5", importance 1.0, emotional_impact 0.1
RECORD_5 ==
    JsonMemory(<<"o", "t", "h", "e", "r", " ", "t", "h", "i", "n", "g">>,
               <<"T", "1", ".", "5">>, 10 * Tenths(10), Tenths(1))

\* RECORD_1 without its importance key
RECORD_NO_IMPORTANCE ==
    [k \in DOMAIN RECORD_1 \ {"importance"} |-> RECORD_1[k]]

\* RECORD_2 with a timestamp that is not ISO-8601
RECORD_BAD_TIMESTAMP ==
    [RECORD_2 EXCEPT !.timestamp = <<"n", "o", "w">>]

File(kind, data) == [kind |-> kind, data |-> data]

\* no file at the path
FILE_ABSENT == File("absent", <<>>)

\* a file json.load cannot parse (empty, truncated, not JSON)
FILE_GARBAGE == File("garbage", <<>>)

InitialFiles ==
    {FILE_ABSENT,
     FILE_GARBAGE,
     File("list", <<>>),
     File("list", <<RECORD_1, RECORD_2, RECORD_3, RECORD_4, RECORD_5>>),
     File("list", <<RECORD_3, RECORD_NO_IMPORTANCE, RECORD_2>>),
     File("list", <<RECORD_1, RECORD_BAD_TIMESTAMP>>)}

\* what a caller of store passes: complexities 0.0 and 3.0, confidences -1.0
\* and 0.5, valences -3.0 and 0.2
StoreComplexities == {0, Tenths(30)}

StoreThoughts ==
    {[content |-> <<"t">>, timestamp |-> DateTimeAt(0), thought_type |-> "observation",
      confidence |-> c, emotional_valence |-> v] :
        c \in {0 - Tenths(10), Tenths(5)}, v \in {0 - Tenths(30), Tenths(2)}}

StoreThoughtLists ==
    UNION {[1..n -> StoreThoughts] : n \in 0..MaxStoreThoughts}

\* the limits get_recent_thoughts is called with
RecentLimits == {0, 3}

(***************************************************************************)
(* State                                                                   *)
(***************************************************************************)
VARIABLES
    memory_file,  \* the JSON file at MemorySystem.memory_file
    agent,        \* "unborn" until SentimentAgent(...) has run, then "ready"
    memories,     \* MemorySystem.memories
    thoughts,     \* InternalDialogue.thoughts
    clock,        \* the wall clock, in ticks
    pc,           \* where the think call stands: the stage it runs next, "returned"
                  \* once it has returned, "idle" when no call is in progress
    frame,        \* the locals of the think call: stimulus, perception, ...
    result,       \* what the last think call returned
    view,         \* what the last read-only call returned
    calls,        \* think and store calls made so far
    entry,        \* memories, thoughts and memory_file when the think call began
    raised,       \* the stage an exception was raised in during the think call
    saved,        \* what _save_memories did in the think call
    persisted,    \* the sequence loaded at construction or written by the last successful save
    stages,       \* the stages the think call has completed, in order
    loop,         \* the asyncio event loop: its tasks, ready queue and running task
    peer          \* a second MemorySystem on the same memory_file, in another agent

vars ==
    <<memory_file, agent, memories, thoughts, clock, pc, frame, result, view,
      calls, entry, raised, saved, persisted, stages, loop, peer>>

NoPerception ==
    [raw_input |-> <<>>, detected_emotion |-> "neutral", key_concepts |-> <<>>,
     question_type |-> "statement", complexity |-> 0]

NoFrame ==
    [stimulus |-> <<>>, perception |-> NoPerception, relevant_memories |-> <<>>,
     thoughts |-> <<>>, response |-> <<>>]

NoResult == [returned |-> FALSE, raises |-> FALSE, value |-> <<>>]

NoView == [op |-> "none", arg |-> 0, value |-> <<>>]

NoEntry == [memories |-> <<>>, thoughts |-> <<>>, memory_file |-> FILE_ABSENT]

\* an event loop on which no task has been created
\* no second agent has been constructed
NoPeer == [agent |-> "unborn", memories |-> <<>>, calls |-> 0, saved |-> "none"]

NoLoop == [tasks |-> <<>>, ready |-> <<>>, running |-> 0, trace |-> <<>>, done |-> <<>>]

Init ==
    /\ memory_file \in InitialFiles
    /\ agent = "unborn"
    /\ memories = <<>>
    /\ thoughts = <<>>
    /\ clock = 2
    /\ pc = "idle"
    /\ frame = NoFrame
    /\ result = NoResult
    /\ view = NoView
    /\ calls = 0
    /\ entry = NoEntry
    /\ raised = "none"
    /\ saved = "none"
    /\ persisted = <<>>
    /\ stages = <<>>
    /\ loop = NoLoop
    /\ peer = NoPeer

(***************************************************************************)
(* SentimentAgent                                                          *)
(***************************************************************************)
\* SentimentAgent.__init__: MemorySystem.__init__ loads the file
Construct ==
    /\ agent = "unborn"
    /\ LET loaded == load_memories(memory_file, <<>>)
       IN  /\ memories' = loaded.memories
           /\ persisted' = loaded.memories
           /\ agent' = IF loaded.raised THEN "failed" ELSE "ready"
    /\ UNCHANGED <<peer, loop, memory_file, thoughts, clock, pc, frame, result, view, calls,
                   entry, raised, saved, stages>>

\* think is entered: nothing of the cycle has run yet
ThinkEnter(stimulus) ==
    /\ agent = "ready"
    /\ pc = "idle"
    /\ calls < MaxThinks
    /\ calls' = calls + 1
    /\ pc' = "perceive"
    /\ frame' = [NoFrame EXCEPT !.stimulus = stimulus]
    /\ entry' = [memories |-> memories, thoughts |-> thoughts, memory_file |-> memory_file]
    /\ view' = NoView
    /\ UNCHANGED <<peer, loop, memory_file, agent, memories, thoughts, clock, result, raised,
                   saved, persisted, stages>>

think == \E stimulus \in Stimuli : ThinkEnter(stimulus)

self_reflect == ThinkEnter(reflection_prompt)

\* Phase 1
Perceive ==
    /\ pc = "perceive"
    /\ frame' = [frame EXCEPT !.perception = perceive(frame.stimulus)]
    /\ pc' = "recall"
    /\ stages' = Append(stages, "perceive")
    /\ UNCHANGED <<peer, loop, memory_file, agent, memories, thoughts, clock, result, view,
                   calls, entry, raised, saved, persisted>>

\* Phase 2
Recall ==
    /\ pc = "recall"
    /\ frame' = [frame EXCEPT !.relevant_memories = recall(memories, frame.perception)]
    /\ pc' = "contemplate"
    /\ stages' = Append(stages, "recall")
    /\ UNCHANGED <<peer, loop, memory_file, agent, memories, thoughts, clock, result, view,
                   calls, entry, raised, saved, persisted>>

\* Phase 3: the generated thoughts extend the history; the clock moves on
Contemplate ==
    /\ pc = "contemplate"
    /\ LET generated == contemplate(frame.perception, frame.relevant_memories, "unused",
                                    DateTimeAt(clock), DateTimeAt(clock))
       IN  /\ thoughts' = thoughts \o generated
           /\ frame' = [frame EXCEPT !.thoughts = generated]
    /\ clock' = clock + 1
    /\ pc' = "respond"
    /\ stages' = Append(stages, "contemplate")
    /\ UNCHANGED <<peer, loop, memory_file, agent, memories, result, view, calls, entry,
                   raised, saved, persisted>>

\* Phase 4
Respond ==
    /\ pc = "respond"
    /\ frame' = [frame EXCEPT !.response = respond(frame.thoughts)]
    /\ pc' = "store"
    /\ stages' = Append(stages, "respond")
    /\ UNCHANGED <<peer, loop, memory_file, agent, memories, thoughts, clock, result, view,
                   calls, entry, raised, saved, persisted>>

\* think with an except clause that does not catch the exception: it propagates
think_outcome_reraises(exception, response) ==
    IF exception
    THEN [returned |-> FALSE, raises |-> TRUE, value |-> <<>>]
    ELSE [returned |-> TRUE, raises |-> FALSE, value |-> response]

\* how think ends (agent.py:487-491): it returns the response, or, when an
\* exception left a stage, the fallback reply of its except clause
think_outcome(exception, response) ==
    IF exception
    THEN [returned |-> TRUE, raises |-> FALSE, value |-> FALLBACK_REPLY]
    ELSE [returned |-> TRUE, raises |-> FALSE, value |-> response]

\* store runs with the Memory built at the present clock reading
StoreRuns(io, fault) ==
    LET out == store(memories, memory_file, frame.perception, frame.thoughts,
                     frame.response, DateTimeAt(clock), io, fault)
    IN  /\ memories' = out.memories
        /\ memory_file' = out.memory_file
        /\ saved' = out.saved
        /\ persisted' = IF out.saved = "ok" THEN out.memories ELSE persisted
        /\ result' = think_outcome(out.raised, frame.response)
        /\ pc' = "returned"

\* Phase 5: no statement of store raises
Store ==
    /\ pc = "store"
    /\ \E io \in IoOutcomes : StoreRuns(io, "none")
    /\ clock' = clock + 1
    /\ stages' = Append(stages, "store")
    /\ UNCHANGED <<peer, loop, agent, thoughts, frame, view, calls, entry, raised>>

\* a think whose except clause puts the history back as it was at entry
StageRaises_rolls_back ==
    /\ pc \in {"perceive", "recall", "contemplate", "respond"}
    /\ raised' = pc
    /\ result' = think_outcome(TRUE, frame.response)
    /\ pc' = "returned"
    /\ thoughts' = entry.thoughts
    /\ UNCHANGED <<peer, loop, memory_file, agent, memories, clock, frame, view,
                   calls, entry, saved, persisted, stages>>

\* an exception leaves perceive, recall, contemplate (before it extends the
\* history, its last statement) or respond
StageRaises ==
    /\ pc \in {"perceive", "recall", "contemplate", "respond"}
    /\ raised' = pc
    /\ result' = think_outcome(TRUE, frame.response)
    /\ pc' = "returned"
    /\ UNCHANGED <<peer, loop, memory_file, agent, memories, thoughts, clock, frame, view,
                   calls, entry, saved, persisted, stages>>

\* an exception leaves store while it builds the Memory (agent.py:246-253)
StoreRaisesBeforeAppend ==
    /\ pc = "store"
    /\ StoreRuns("ok", "build")
    /\ raised' = "store"
    /\ UNCHANGED <<peer, loop, agent, thoughts, clock, frame, view, calls, entry, stages>>

\* an exception leaves store from its last statement (agent.py:258), after the
\* append and the save
StoreRaisesAfterSave ==
    /\ pc = "store"
    /\ \E io \in IoOutcomes : StoreRuns(io, "log")
    /\ clock' = clock + 1
    /\ raised' = "store_log"
    /\ UNCHANGED <<peer, loop, agent, thoughts, frame, view, calls, entry, stages>>

\* the caller has the returned value; think's frame is gone
ThinkLeaves ==
    /\ pc = "returned"
    /\ pc' = "idle"
    /\ frame' = NoFrame
    /\ result' = NoResult
    /\ entry' = NoEntry
    /\ raised' = "none"
    /\ saved' = "none"
    /\ stages' = <<>>
    /\ UNCHANGED <<peer, loop, memory_file, agent, memories, thoughts, clock, view, calls,
                   persisted>>

\* dialogue.get_recent_thoughts(limit)
GetRecentThoughts ==
    /\ agent = "ready"
    /\ pc = "idle"
    /\ \E limit \in RecentLimits :
        view' = [op |-> "recent", arg |-> limit,
                 value |-> get_recent_thoughts(thoughts, limit)]
    /\ UNCHANGED <<peer, loop, memory_file, agent, memories, thoughts, clock, pc, frame, result,
                   calls, entry, raised, saved, persisted, stages>>

\* get_personality_summary counting the records of the file instead of the list held
get_personality_summary_counts_file(memories_held, thoughts_held) ==
    [total_memories  |-> IF memory_file.kind = "list" THEN Len(memory_file.data) ELSE 0,
     recent_thoughts |-> Len(get_recent_thoughts(thoughts_held, 5))]

\* the counts of get_personality_summary
get_personality_summary(memories_held, thoughts_held) ==
    [total_memories  |-> Len(memories_held),
     recent_thoughts |-> Len(get_recent_thoughts(thoughts_held, 5))]

GetPersonalitySummary ==
    /\ agent = "ready"
    /\ pc = "idle"
    /\ view' = [op |-> "summary", arg |-> 0,
                value |-> get_personality_summary(memories, thoughts)]
    /\ UNCHANGED <<peer, loop, memory_file, agent, memories, thoughts, clock, pc, frame, result,
                   calls, entry, raised, saved, persisted, stages>>

\* memory.recall(perception) called on its own, on the perception of a stimulus
RecallOnly ==
    /\ agent = "ready"
    /\ pc = "idle"
    /\ \E stimulus \in Stimuli :
        view' = [op |-> "recall", arg |-> stimulus,
                 value |-> recall(memories, perceive(stimulus))]
    /\ UNCHANGED <<peer, loop, memory_file, agent, memories, thoughts, clock, pc, frame, result,
                   calls, entry, raised, saved, persisted, stages>>

Next ==
    \/ Construct
    \/ think
    \/ self_reflect
    \/ Perceive
    \/ Recall
    \/ Contemplate
    \/ Respond
    \/ Store
    \/ StageRaises
    \/ StoreRaisesBeforeAppend
    \/ StoreRaisesAfterSave
    \/ ThinkLeaves
    \/ GetRecentThoughts
    \/ GetPersonalitySummary
    \/ RecallOnly

Spec == Init /\ [][Next]_vars

(***************************************************************************)
(* MemorySystem.store called on its own, with arguments of any sign and    *)
(* magnitude                                                               *)
(***************************************************************************)
StoreOnly ==
    /\ agent = "ready"
    /\ pc = "idle"
    /\ calls < MaxStores
    /\ calls' = calls + 1
    /\ \E complexity \in StoreComplexities, given \in StoreThoughtLists, io \in IoOutcomes :
        LET perception == [NoPerception EXCEPT !.raw_input = <<"x">>,
                                               !.complexity = complexity]
            out == store(memories, memory_file, perception, given, <<"r">>,
                         DateTimeAt(clock), io, "none")
        IN  /\ frame' = [NoFrame EXCEPT !.perception = perception, !.thoughts = given,
                                        !.response = <<"r">>]
            /\ memories' = out.memories
            /\ memory_file' = out.memory_file
            /\ saved' = out.saved
            /\ persisted' = IF out.saved = "ok" THEN out.memories ELSE persisted
    /\ clock' = clock + 1
    /\ UNCHANGED <<peer, loop, agent, thoughts, pc, result, view, entry, raised, stages>>

InitStore == Init /\ memory_file = FILE_ABSENT

NextStore ==
    \/ Construct
    \/ StoreOnly

SpecStore == InitStore /\ [][NextStore]_vars
(***************************************************************************)
(* A file written by another program: well-formed JSON with every key, but *)
(* scores and lists no store call would have written                       *)
(***************************************************************************)
\* content "Trust Memory? Wonderful", timestamp "T0", importance 0.5,
\* emotional_impact 8.0, related_thoughts ["a", "b", "c"]
RECORD_FOREIGN ==
    [content          |-> <<"T", "r", "u", "s", "t", " ", "M", "e", "m", "o", "r", "y", "?", " ",
                            "W", "o", "n", "d", "e", "r", "f", "u", "l">>,
     timestamp        |-> <<"T", "0">>,
     memory_type      |-> "episodic",
     importance       |-> 10 * Tenths(5),
     emotional_impact |-> Tenths(80),
     related_thoughts |-> <<<<"a">>, <<"b">>, <<"c">>>>]

ForeignFiles == {File("list", <<RECORD_FOREIGN>>)}

InitLoaded ==
    /\ memory_file \in ForeignFiles
    /\ agent = "unborn"
    /\ memories = <<>>
    /\ thoughts = <<>>
    /\ clock = 2
    /\ pc = "idle"
    /\ frame = NoFrame
    /\ result = NoResult
    /\ view = NoView
    /\ calls = 0
    /\ entry = NoEntry
    /\ raised = "none"
    /\ saved = "none"
    /\ persisted = <<>>
    /\ stages = <<>>
    /\ loop = NoLoop
    /\ peer = NoPeer

SpecLoaded == InitLoaded /\ [][Next]_vars

(***************************************************************************)
(* The components called on their own: CoreMind.perceive, CoreMind.respond *)
(* and InternalDialogue.contemplate, with the arguments a caller can pass  *)
(***************************************************************************)
\* ""
TEXT_EMPTY ==
    <<>>

\* "good good bad"
TEXT_REPEATED ==
    <<"g", "o", "o", "d", " ", "g", "o", "o", "d", " ", "b", "a", "d">>

\* "unhappy"
TEXT_UNHAPPY ==
    <<"u", "n", "h", "a", "p", "p", "y">>

\* "I HATE this"
TEXT_SHOUTED ==
    <<"I", " ", "H", "A", "T", "E", " ", "t", "h", "i", "s">>

\* "sad and bad but happy"
TEXT_MIXED ==
    <<"s", "a", "d", " ", "a", "n", "d", " ", "b", "a", "d", " ", "b", "u", "t", " ", "h",
       "a", "p", "p", "y">>

EmotionTexts ==
    {TEXT_EMPTY, TEXT_REPEATED, TEXT_UNHAPPY, TEXT_SHOUTED, TEXT_MIXED, STIMULUS_LOVE,
     STIMULUS_WHY}

\* the thoughts passed to respond: contents "Ab" and "Cd", confidences 0.6, 0.75, 0.9
RespondThoughts ==
    {Thought(content, DateTimeAt(0), "observation", confidence, Tenths(1)) :
        content \in {<<"A", "b">>, <<"C", "d">>},
        confidence \in {Tenths(6), Tenths(7) + (Scale \div 20), Tenths(9)}}

RespondThoughtLists == UNION {[1..n -> RespondThoughts] : n \in 0..3}

\* the perceptions passed to contemplate: every question_type, and a dict without the key
ContemplatePerceptions ==
    {[NoPerception EXCEPT !.question_type = q, !.key_concepts = k] :
        q \in {"philosophical", "inquiry", "question", "statement"},
        k \in {<<>>, <<<<"t", "r", "u", "s", "t">>>>}}
    \cup {[k \in DOMAIN NoPerception \ {"question_type"} |-> NoPerception[k]]}

\* the recalled memories passed to contemplate
ContemplateMemories ==
    {<<>>, <<MemoryFromJson(RECORD_1)>>, <<MemoryFromJson(RECORD_FOREIGN), MemoryFromJson(RECORD_1)>>}

\* the personality profiles passed to contemplate: weights above, at and below
\* the thresholds, and the dict think passes (agent.py:439-444), which has no weights
Profile(introspection, curiosity) ==
    [introspection |-> introspection, curiosity |-> curiosity, empathy |-> Tenths(6),
     skepticism |-> Tenths(6), creativity |-> Tenths(5)]

ContemplateProfiles ==
    {Profile(Tenths(9), Tenths(8)), Profile(Tenths(7), Tenths(6)),
     Profile(Tenths(5), Tenths(5)), Profile(Tenths(9), Tenths(5)),
     [introspective |-> TRUE, curious |-> TRUE, empathetic |-> TRUE, analytical |-> TRUE]}

\* mind.perceive(text)
PerceiveOnly ==
    /\ agent = "ready"
    /\ pc = "idle"
    /\ calls < MaxCalls
    /\ calls' = calls + 1
    /\ \E text \in EmotionTexts :
        view' = [op |-> "perceive", arg |-> text, value |-> perceive(text)]
    /\ UNCHANGED <<peer, loop, memory_file, agent, memories, thoughts, clock, pc, frame, result,
                   entry, raised, saved, persisted, stages>>

\* mind.respond(thoughts)
RespondOnly ==
    /\ agent = "ready"
    /\ pc = "idle"
    /\ calls < MaxCalls
    /\ calls' = calls + 1
    /\ \E given \in RespondThoughtLists :
        view' = [op |-> "respond", arg |-> given, value |-> respond(given)]
    /\ UNCHANGED <<peer, loop, memory_file, agent, memories, thoughts, clock, pc, frame, result,
                   entry, raised, saved, persisted, stages>>

\* dialogue.contemplate(perception, memories, personality): the generated
\* thoughts are returned and extend the history
ContemplateOnly ==
    /\ agent = "ready"
    /\ pc = "idle"
    /\ calls < MaxCalls
    /\ calls' = calls + 1
    /\ \E perception \in ContemplatePerceptions, recalled \in ContemplateMemories,
          personality \in ContemplateProfiles :
        LET generated == contemplate(perception, recalled, personality,
                                     DateTimeAt(clock), DateTimeAt(clock))
        IN  /\ thoughts' = thoughts \o generated
            /\ view' = [op |-> "contemplate",
                        arg |-> [perception |-> perception, memories |-> recalled,
                                 personality |-> personality],
                        value |-> generated]
    /\ clock' = clock + 1
    /\ UNCHANGED <<peer, loop, memory_file, agent, memories, pc, frame, result, entry, raised,
                   saved, persisted, stages>>

InitCalls == Init /\ memory_file = FILE_ABSENT

NextCalls ==
    \/ Construct
    \/ PerceiveOnly
    \/ RespondOnly
    \/ ContemplateOnly

SpecCalls == InitCalls /\ [][NextCalls]_vars

(***************************************************************************)
(* think calls started together as tasks of one asyncio event loop         *)
(* (asyncio.gather, asyncio.create_task).  The loop runs one task at a     *)
(* time; the running task keeps the thread until an await of it reaches a  *)
(* future that is not done, and only then does the loop run another task.  *)
(* `await coro()` on a coroutine whose body reaches no such future runs    *)
(* the body to its end without returning to the loop.                      *)
(***************************************************************************)
\* the stages whose await returns control to the event loop, as if the stage
\* awaited asyncio.sleep(0) or asynchronous file I/O
AwaitSuspends_every_stage(stage) == stage \in {"perceive", "recall", "contemplate", "respond"}

\* the stages whose await returns control to the event loop: perceive, recall,
\* contemplate (and the four coroutines it awaits), respond and store await no
\* future, sleep or asynchronous I/O (agent.py:79-97, 135-158, 210-258,
\* 299-403), so none does
AwaitSuspends(stage) == stage \in {}

\* the frame of a think call that has not started to run
NewTask(stimulus) ==
    [stimulus |-> stimulus, pc |-> "perceive", perception |-> NoPerception,
     relevant_memories |-> <<>>, thoughts |-> <<>>, response |-> <<>>,
     result |-> NoResult, entry |-> NoEntry, saved |-> "none"]

\* the shared state as a record
Shared(held, history, file, now, lastSaved) ==
    [memories |-> held, thoughts |-> history, memory_file |-> file, clock |-> now,
     persisted |-> lastSaved]

\* the stage task t stands at, run on the shared state: the task's new frame
\* and the new shared state (agent.py:470-487)
RunStage(t, io) ==
    IF t.pc = "perceive"
    THEN [task   |-> [t EXCEPT !.perception = perceive(t.stimulus), !.pc = "recall"],
          shared |-> Shared(memories, thoughts, memory_file, clock, persisted)]
    ELSE IF t.pc = "recall"
    THEN [task   |-> [t EXCEPT !.relevant_memories = recall(memories, t.perception),
                               !.pc = "contemplate"],
          shared |-> Shared(memories, thoughts, memory_file, clock, persisted)]
    ELSE IF t.pc = "contemplate"
    THEN LET generated == contemplate(t.perception, t.relevant_memories, "unused",
                                      DateTimeAt(clock), DateTimeAt(clock))
         IN  [task   |-> [t EXCEPT !.thoughts = generated, !.pc = "respond"],
              shared |-> Shared(memories, thoughts \o generated, memory_file, clock + 1,
                                persisted)]
    ELSE IF t.pc = "respond"
    THEN [task   |-> [t EXCEPT !.response = respond(t.thoughts), !.pc = "store"],
          shared |-> Shared(memories, thoughts, memory_file, clock, persisted)]
    ELSE LET out == store(memories, memory_file, t.perception, t.thoughts, t.response,
                          DateTimeAt(clock), io, "none")
         IN  [task   |-> [t EXCEPT !.result = think_outcome(out.raised, t.response),
                                   !.saved = out.saved, !.pc = "returned"],
              shared |-> Shared(out.memories, thoughts, out.memory_file, clock + 1,
                                IF out.saved = "ok" THEN out.memories ELSE persisted)]

\* asyncio.gather(agent.think(s1), ..., agent.think(sn)): n tasks are created
\* and queued in the order given; none has run yet
Gather ==
    /\ agent = "ready"
    /\ pc = "idle"
    /\ loop = NoLoop
    /\ \E n \in 2..MaxTasks :
        \E given \in [1..n -> Stimuli] :
            loop' = [NoLoop EXCEPT !.tasks = [i \in 1..n |-> NewTask(given[i])],
                                   !.ready = [i \in 1..n |-> i]]
    /\ UNCHANGED <<peer, memory_file, agent, memories, thoughts, clock, pc, frame, result, view,
                   calls, entry, raised, saved, persisted, stages>>

\* no task is running: the loop takes the task at the head of its ready queue
\* and runs (or resumes) it
LoopRuns ==
    /\ loop.running = 0
    /\ loop.ready # <<>>
    /\ LET id == Head(loop.ready)
           t == loop.tasks[id]
           started ==
               IF t.pc = "perceive"
               THEN [t EXCEPT !.entry = [memories |-> memories, thoughts |-> thoughts,
                                         memory_file |-> memory_file]]
               ELSE t
       IN  loop' = [loop EXCEPT !.running = id, !.ready = Tail(loop.ready),
                                !.tasks[id] = started]
    /\ UNCHANGED <<peer, memory_file, agent, memories, thoughts, clock, pc, frame, result, view,
                   calls, entry, raised, saved, persisted, stages>>

\* the running task runs the stage it stands at.  When think has returned the
\* task is done; when the stage's await suspended, the task is queued again
\* and the loop is free to run another; otherwise the task keeps running.
TaskStage ==
    /\ loop.running # 0
    /\ \E io \in IoOutcomes :
        LET id == loop.running
            t == loop.tasks[id]
            after == RunStage(t, io)
            finished == after.task.pc = "returned"
            suspended == ~finished /\ AwaitSuspends(t.pc)
        IN  /\ (t.pc # "store") => (io = "ok")
            /\ memories' = after.shared.memories
            /\ thoughts' = after.shared.thoughts
            /\ memory_file' = after.shared.memory_file
            /\ clock' = after.shared.clock
            /\ persisted' = after.shared.persisted
            /\ loop' = [tasks   |-> [loop.tasks EXCEPT ![id] = after.task],
                        ready   |-> IF suspended THEN Append(loop.ready, id) ELSE loop.ready,
                        running |-> IF finished \/ suspended THEN 0 ELSE id,
                        trace   |-> Append(loop.trace, [task |-> id, stage |-> t.pc]),
                        done    |-> IF finished THEN Append(loop.done, id) ELSE loop.done]
    /\ UNCHANGED <<peer, agent, pc, frame, result, view, calls, entry, raised, saved, stages>>

TaskFiles ==
    {FILE_ABSENT, File("list", <<RECORD_1, RECORD_2, RECORD_3, RECORD_4, RECORD_5>>)}

InitTasks == Init /\ memory_file \in TaskFiles

NextTasks ==
    \/ Construct
    \/ Gather
    \/ LoopRuns
    \/ TaskStage

SpecTasks == InitTasks /\ [][NextTasks]_vars

(***************************************************************************)
(* The process dies while _save_memories writes.  open(path, 'w') has      *)
(* emptied the file and json.dump writes the list piece by piece, its      *)
(* closing bracket last (agent.py:205-206): what is on disk is an empty    *)
(* file or the beginning of a JSON document.  The process and all it held  *)
(* in memory are gone; an agent can be constructed again on the same path. *)
(***************************************************************************)
\* a save that writes a temporary file and renames it over the old one: a
\* crash before the rename leaves the old file
CrashedWrite_keeps_old_file(file) == file

\* the file a crash in the middle of the write leaves (agent.py:205-206)
CrashedWrite(file) == FILE_GARBAGE

\* store is called and the process dies in its save
StoreCrashes ==
    /\ agent = "ready"
    /\ pc = "idle"
    /\ saved # "crashed"
    /\ entry' = [memories |-> memories, thoughts |-> thoughts, memory_file |-> memory_file]
    /\ memory_file' = CrashedWrite(memory_file)
    /\ saved' = "crashed"
    /\ agent' = "unborn"
    /\ memories' = <<>>
    /\ thoughts' = <<>>
    /\ frame' = NoFrame
    /\ UNCHANGED <<peer, loop, clock, pc, result, view, calls, raised, persisted, stages>>

NextCrash ==
    \/ Construct
    \/ StoreOnly
    \/ StoreCrashes

SpecCrash == InitStore /\ [][NextCrash]_vars

(***************************************************************************)
(* Two agents on one memory_file.  Each MemorySystem loads the file once,  *)
(* in __init__ (agent.py:170-174), and from then on appends to its own     *)
(* list and writes that list over the file (agent.py:255-256, 196-206);    *)
(* nothing locks the file or reads it again.  A store is one step here.    *)
(***************************************************************************)
MaxSharedStores == 2

\* the arguments of the store calls: the first agent's responses are "r", the
\* second's "p"
SharedPerception == [NoPerception EXCEPT !.raw_input = <<"x">>, !.complexity = Tenths(5)]

\* the first agent stores
SharedStore ==
    /\ agent = "ready"
    /\ pc = "idle"
    /\ calls < MaxSharedStores
    /\ calls' = calls + 1
    /\ \E io \in IoOutcomes :
        LET out == store(memories, memory_file, SharedPerception, <<>>, <<"r">>,
                         DateTimeAt(clock), io, "none")
        IN  /\ memories' = out.memories
            /\ memory_file' = out.memory_file
            /\ saved' = out.saved
            /\ persisted' = IF out.saved = "ok" THEN out.memories ELSE persisted
    /\ clock' = clock + 1
    /\ UNCHANGED <<peer, loop, agent, thoughts, pc, frame, result, view, entry, raised,
                   stages>>

\* the second agent is constructed: its MemorySystem loads the file
PeerConstruct ==
    /\ peer.agent = "unborn"
    /\ LET loaded == load_memories(memory_file, <<>>)
       IN  peer' = [peer EXCEPT !.agent = IF loaded.raised THEN "failed" ELSE "ready",
                                !.memories = loaded.memories]
    /\ UNCHANGED <<loop, memory_file, agent, memories, thoughts, clock, pc, frame, result,
                   view, calls, entry, raised, saved, persisted, stages>>

\* a store that reads the file again before it appends
PeerStore_reloads_first ==
    /\ peer.agent = "ready"
    /\ peer.calls < MaxSharedStores
    /\ \E io \in IoOutcomes :
        LET out == store(load_memories(memory_file, peer.memories).memories, memory_file,
                         SharedPerception, <<>>, <<"p">>, DateTimeAt(clock), io, "none")
        IN  /\ peer' = [peer EXCEPT !.memories = out.memories, !.saved = out.saved,
                                    !.calls = @ + 1]
            /\ memory_file' = out.memory_file
    /\ clock' = clock + 1
    /\ UNCHANGED <<loop, agent, memories, thoughts, pc, frame, result, view, calls, entry,
                   raised, saved, persisted, stages>>

\* the second agent stores
PeerStore ==
    /\ peer.agent = "ready"
    /\ peer.calls < MaxSharedStores
    /\ \E io \in IoOutcomes :
        LET out == store(peer.memories, memory_file, SharedPerception, <<>>, <<"p">>,
                         DateTimeAt(clock), io, "none")
        IN  /\ peer' = [peer EXCEPT !.memories = out.memories, !.saved = out.saved,
                                    !.calls = @ + 1]
            /\ memory_file' = out.memory_file
    /\ clock' = clock + 1
    /\ UNCHANGED <<loop, agent, memories, thoughts, pc, frame, result, view, calls, entry,
                   raised, saved, persisted, stages>>

NextShared ==
    \/ Construct
    \/ SharedStore
    \/ PeerConstruct
    \/ PeerStore

SpecShared == InitStore /\ [][NextShared]_vars


(***************************************************************************)
(* Properties                                                              *)
(***************************************************************************)
FailedSaves == {"open_fails", "write_fails"}

\* a is an initial segment of b
IsPrefix(a, b) == Len(a) <= Len(b) /\ SubSeq(b, 1, Len(a)) = a

\* the last element of a non-empty list
Last(xs) == xs[Len(xs)]

\* C1: think never propagates a failure: whenever an exception leaves perceive,
\* recall, contemplate, respond or store, think returns, and what it returns
\* is the fallback reply.
C1_ThinkReturnsFallback ==
    /\ ~result.raises
    /\ (pc = "returned") => result.returned
    /\ (pc = "returned" /\ raised # "none") => (result.value = FALLBACK_REPLY)

\* a think call has returned after an exception left store
C1_Witness ==
    pc = "returned" /\ raised \in {"store", "store_log"} /\ result.value = FALLBACK_REPLY

\* C2 as stated: whenever think returns the fallback reply because a stage
\* (store among them) raised, the memories and the file are as they were when
\* the call began.
C2_Original ==
    (pc = "returned" /\ raised # "none" /\ result.value = FALLBACK_REPLY)
        => (memories = entry.memories /\ memory_file = entry.memory_file)

\* C2 amended: the memories and the file are as they were when the call began
\* whenever the exception left perceive, recall, contemplate or respond, or
\* left store before its append; an exception that leaves store after the
\* append and the save leaves the new Memory in the list.
C2_FailedCycleNotRecorded ==
    /\ (pc = "returned" /\ raised \in {"perceive", "recall", "contemplate", "respond", "store"})
        => /\ result.value = FALLBACK_REPLY
           /\ memories = entry.memories
           /\ memory_file = entry.memory_file
    /\ (pc = "returned" /\ raised = "store_log")
        => /\ result.value = FALLBACK_REPLY
           /\ Len(memories) = Len(entry.memories) + 1
           /\ IsPrefix(entry.memories, memories)

\* a second think call failed while store built its Memory, with memories held
C2_Witness ==
    /\ pc = "returned"
    /\ raised = "store"
    /\ calls = 2
    /\ memories # <<>>
    /\ memories = entry.memories

StageOrder == <<"perceive", "recall", "contemplate", "respond", "store">>

\* C3: the stages of a think call run in the order perceive, recall,
\* contemplate, respond, store, each after the one before it has completed;
\* nothing is appended before store runs, so recall reads the memories the
\* call began with; and when all five have completed, think returns the
\* string respond produced, which is the string the new Memory's content
\* records.
C3_StagesInOrder ==
    /\ IsPrefix(stages, StageOrder)
    /\ (pc \in {"perceive", "recall", "contemplate", "respond", "store"})
        => (pc = StageOrder[Len(stages) + 1] /\ memories = entry.memories)
    /\ \A i \in 1..Len(frame.relevant_memories) :
        InList(frame.relevant_memories[i], entry.memories)
    /\ (pc = "returned" /\ memories # entry.memories) => (Len(stages) >= 4)
    /\ (pc = "returned" /\ Len(stages) = 5)
        => /\ result.value = frame.response
           /\ Len(memories) = Len(entry.memories) + 1
           /\ IsPrefix(entry.memories, memories)
           /\ Last(memories).content =
                  CONTENT_INPUT \o frame.stimulus \o CONTENT_RESPONSE \o result.value

\* a second think call has completed all five stages, having recalled a memory
C3_Witness ==
    /\ pc = "returned"
    /\ Len(stages) = 5
    /\ calls = 2
    /\ frame.relevant_memories # <<>>
    /\ result.value = frame.response

\* C4: when the save fails during store, the failure is absorbed: the new
\* Memory stays at the end of the memories, where recall finds it under the
\* key concepts of its own stimulus, and think returns the synthesized
\* response, not the fallback reply.
C4_SaveFailureAbsorbed ==
    (pc = "returned" /\ saved \in FailedSaves /\ raised = "none")
        => /\ result.returned
           /\ result.value = frame.response
           /\ result.value # FALLBACK_REPLY
           /\ Len(memories) = Len(entry.memories) + 1
           /\ IsPrefix(entry.memories, memories)
           /\ Last(memories).content =
                  CONTENT_INPUT \o frame.stimulus \o CONTENT_RESPONSE \o frame.response
           /\ (frame.perception.key_concepts # <<>>)
                  => IsRelevant(Last(memories), frame.perception.key_concepts)

\* think has returned its response although the write of the file failed
C4_Witness ==
    /\ pc = "returned"
    /\ saved = "write_fails"
    /\ raised = "none"
    /\ memory_file = FILE_GARBAGE
    /\ result.value = frame.response

\* C5: after construction the memories are append-only: a step leaves them
\* as they are or adds one Memory at the end, and a think call that returns a
\* synthesized response has added exactly one to those it began with.
C5_AppendOnly ==
    [][(agent = "ready")
        => /\ IsPrefix(memories, memories')
           /\ Len(memories') <= Len(memories) + 1
           /\ (pc # "returned" /\ pc' = "returned" /\ result'.value # FALLBACK_REPLY)
                => /\ Len(memories') = Len(entry'.memories) + 1
                   /\ IsPrefix(entry'.memories, memories')]_vars

\* two think calls have each added a Memory behind the five loaded ones
C5_Witness ==
    /\ pc = "returned"
    /\ result.value # FALLBACK_REPLY
    /\ Len(memories) = 7
    /\ Len(entry.memories) = 6

\* the JSON list _save_memories writes for a list of memories
Serialized(held) == [i \in 1..Len(held) |-> MemoryToJson(held[i])]

\* C6 as stated: after construction the memories equal the sequence written
\* by the last successful save (or loaded at construction), and a successful
\* save leaves the file holding the whole of the memories.
C6_Original ==
    (agent = "ready")
        => /\ memories = persisted
           /\ (pc = "returned" /\ saved = "ok")
                => (memory_file = File("list", Serialized(memories)))

\* C6 amended: after construction the sequence written by the last successful
\* save (or loaded at construction) is an initial segment of the memories,
\* which hold in addition the memories appended since whose save failed; a
\* successful save leaves the file holding the whole of the memories, in
\* order.
C6_PersistedIsPrefix ==
    (agent = "ready")
        => /\ IsPrefix(persisted, memories)
           /\ (pc = "returned" /\ saved = "ok")
                => /\ memory_file = File("list", Serialized(memories))
                   /\ persisted = memories
           /\ (pc = "returned" /\ saved \in FailedSaves)
                => /\ Len(persisted) < Len(memories)
                   /\ memory_file # File("list", Serialized(memories))

\* a save has succeeded in the second think call, after one that failed
\* writing the file
C6_Witness ==
    /\ pc = "returned"
    /\ saved = "ok"
    /\ calls = 2
    /\ entry.memory_file = FILE_GARBAGE
    /\ Len(entry.memories) = 6
    /\ persisted = memories

\* a JSON object from which _load_memories can build a Memory
WellFormed(m) == MemoryKeys \subseteq DOMAIN m /\ IsIsoFormat(m.timestamp)

\* C7: construction never fails and never loads a part of the file: an absent
\* file, a file that does not parse, and a list holding a malformed record
\* each give empty memories; a list of well-formed records gives one Memory
\* for each; the file is left as it was.
C7_LoadAllOrNothing ==
    [][(agent = "unborn")
        => /\ agent' = "ready"
           /\ memory_file' = memory_file
           /\ (memory_file.kind \in {"absent", "garbage"}) => (memories' = <<>>)
           /\ (/\ memory_file.kind = "list"
               /\ \E i \in 1..Len(memory_file.data) : ~WellFormed(memory_file.data[i]))
                => (memories' = <<>>)
           /\ (/\ memory_file.kind = "list"
               /\ \A i \in 1..Len(memory_file.data) : WellFormed(memory_file.data[i]))
                => /\ Len(memories') = Len(memory_file.data)
                   /\ \A i \in 1..Len(memories') :
                        memories'[i].content = memory_file.data[i].content]_vars

\* the agent was constructed on a list whose second record is malformed
C7_Witness ==
    /\ agent = "ready"
    /\ calls = 0
    /\ memory_file.kind = "list"
    /\ Len(memory_file.data) = 3
    /\ WellFormed(memory_file.data[1])
    /\ ~WellFormed(memory_file.data[2])
    /\ memories = <<>>

\* C8: a successful save of the memories followed by a load of the file
\* written yields as many memories, in the same order, each equal to the
\* original field by field.
C8_RoundTrip ==
    (agent = "ready")
        => /\ LET written == save_memories(memories, memory_file, "ok").file
                  reloaded == load_memories(written, <<>>).memories
              IN  /\ Len(reloaded) = Len(memories)
                  /\ \A i \in 1..Len(memories) :
                        \A k \in MemoryKeys : reloaded[i][k] = memories[i][k]
           /\ (pc = "returned" /\ saved = "ok")
                => (load_memories(memory_file, <<>>).memories = memories)

\* a save has succeeded with memories whose timestamps have a zero and a
\* non-zero microsecond part
C8_Witness ==
    /\ pc = "returned"
    /\ saved = "ok"
    /\ Len(memories) >= 6
    /\ \E i, j \in 1..Len(memories) :
        memories[i].timestamp.us = 0 /\ memories[j].timestamp.us # 0

\* the memories of `held` recall can return for the key concepts
Candidates(held, key_concepts) ==
    {i \in 1..Len(held) : IsRelevant(held[i], key_concepts)}

\* `found` holds at most 3 memories, all candidates, in non-increasing order of
\* (importance, timestamp), and a candidate is left out only when 3 are
\* returned none of which has a smaller key
IsTopThree(found, held, key_concepts) ==
    /\ Len(found) <= 3
    /\ \A i \in 1..Len(found) :
        \E c \in Candidates(held, key_concepts) : held[c] = found[i]
    /\ \A i, j \in 1..Len(found) : (i < j) => ~KeyLess(found[i], found[j])
    /\ \A c \in Candidates(held, key_concepts) :
        (~InList(held[c], found))
            => /\ Len(found) = 3
               /\ \A i \in 1..Len(found) : ~KeyLess(found[i], held[c])

\* C9: recall returns at most 3 memories, in non-increasing order of the
\* (importance, timestamp) key, and they are the greatest candidates: no
\* candidate left out has a greater key than a returned one.
C9_RecallTopThree ==
    /\ (pc = "contemplate")
        => IsTopThree(frame.relevant_memories, memories, frame.perception.key_concepts)
    /\ (view.op = "recall")
        => IsTopThree(view.value, memories, extract_concepts(view.arg))

\* recall has returned 3 of more than 3 candidates, the last two of equal importance
C9_Witness ==
    /\ view.op = "recall"
    /\ Len(view.value) = 3
    /\ Cardinality(Candidates(memories, extract_concepts(view.arg))) > 3
    /\ view.value[2].importance = view.value[3].importance
    /\ KeyLess(view.value[3], view.value[2])

\* C10 as stated: the importance store assigns lies in [0, 1] whatever the
\* sign and magnitude of the confidence and emotional_valence of the thoughts
\* passed to it.
C10_ImportanceInRange ==
    \A i \in 1..Len(memories) :
        0 <= memories[i].importance /\ memories[i].importance <= ImportanceOne
\* C11 as stated: every Memory held has at most 2 related_thoughts, and the
\* Memory store creates from n thoughts holds the contents of the first
\* min(2, n) of them, in generation order.
C11_RelatedThoughtsAtMostTwo ==
    /\ \A i \in 1..Len(memories) : Len(memories[i].related_thoughts) <= 2
    /\ (pc = "returned" /\ Len(memories) = Len(entry.memories) + 1)
        => LET n == Len(frame.thoughts)
               kept == Last(memories).related_thoughts
           IN  /\ Len(kept) = Min(2, n)
               /\ \A k \in 1..Len(kept) : kept[k] = frame.thoughts[k].content

\* dict.get(key, 0) on a personality profile
Weight(personality, trait) == Get(personality, trait, 0)

\* the kinds, confidences and valences the claim gives for the thoughts after
\* the initial reaction
ThoughtsByProfile(recalled, personality) ==
    (IF recalled # <<>> THEN <<[kind |-> "reflection"]>> ELSE <<>>)
    \o (IF Weight(personality, "introspection") > Tenths(7)
        THEN <<[kind |-> "meta-reflection", confidence |-> Tenths(7), valence |-> Tenths(2)]>>
        ELSE <<>>)
    \o (IF Weight(personality, "curiosity") > Tenths(6)
        THEN <<[kind |-> "question", confidence |-> Tenths(6), valence |-> Tenths(3)]>>
        ELSE <<>>)

\* C12 as stated: contemplate returns the initial reaction, then a reflection
\* iff memories were passed, then a meta-reflection (confidence 0.7, valence
\* 0.2) iff the passed personality's introspection is above 0.7, then a
\* question (confidence 0.6, valence 0.3) iff the passed personality's
\* curiosity is above 0.6.
C12_ContemplateFollowsPersonality ==
    (view.op = "contemplate")
        => LET later == ThoughtsByProfile(view.arg.memories, view.arg.personality)
               generated == view.value
           IN  /\ Len(generated) = 1 + Len(later)
               /\ generated[1].thought_type = "observation"
               /\ \A k \in 1..Len(later) :
                    /\ generated[k + 1].thought_type = later[k].kind
                    /\ (later[k].kind # "reflection")
                        => /\ generated[k + 1].confidence = later[k].confidence
                           /\ generated[k + 1].emotional_valence = later[k].valence

\* the thoughts A (content "Ab", confidence 0.9) and B (content "Cd", confidence 0.75)
THOUGHT_A == Thought(<<"A", "b">>, DateTimeAt(0), "observation", Tenths(9), Tenths(1))

THOUGHT_B ==
    Thought(<<"C", "d">>, DateTimeAt(0), "observation", Tenths(7) + (Scale \div 20), Tenths(1))

\* C13: for a non-empty thought sequence the reply opens with the clause built
\* from the lower-cased content of the thought of greatest confidence, the
\* earliest one when several share it; a second clause, if any, follows the
\* opening clause after exactly one space; for [A (0.9), B (0.75)] the reply
\* holds A's lower-cased content and then B's.
C13_RespondLeadsWithMostConfident ==
    (view.op = "respond" /\ view.arg # <<>>)
        => LET given == view.arg
               reply == view.value
           IN  /\ \E m \in 1..Len(given) :
                    /\ \A j \in 1..Len(given) : given[j].confidence <= given[m].confidence
                    /\ \A j \in 1..(m - 1) : given[j].confidence < given[m].confidence
                    /\ LET opening == RESPONSE_PREFIX \o Lower(given[m].content)
                       IN  /\ IsPrefix(opening, reply)
                           /\ (Len(reply) > Len(opening))
                                => /\ reply[Len(opening) + 1] = " "
                                   /\ IsPrefix(SUPPORT_PREFIX,
                                               SubSeq(reply, Len(opening) + 2, Len(reply)))
               /\ (given = <<THOUGHT_A, THOUGHT_B>>)
                    => reply = RESPONSE_PREFIX \o <<"a", "b", " ">> \o SUPPORT_PREFIX \o <<"c", "d">>

\* respond was given two thoughts of equal greatest confidence and different
\* contents, and the reply has a second clause
C13_Witness ==
    /\ view.op = "respond"
    /\ Len(view.arg) = 2
    /\ view.arg[1].confidence = view.arg[2].confidence
    /\ view.arg[1].content # view.arg[2].content
    /\ Len(view.value) > Len(RESPONSE_PREFIX \o Lower(view.arg[1].content))

\* the words of `text`, lower-cased, that are entries of `lexicon`, every occurrence counted
WordHits(lexicon, text) ==
    LET words == Split(Lower(text))
    IN  Cardinality({i \in 1..Len(words) : InList(words[i], lexicon)})

\* C14 as stated: detected_emotion compares the numbers of words of the input
\* that match an entry of the positive and of the negative list, without
\* regard to case and counting every occurrence: positive iff there are more
\* positive hits, negative iff more negative hits, neutral iff as many;
\* "I love this wonderful day" has 2 positive hits and 0 negative ones.
C14_EmotionByWordHits ==
    /\ WordHits(positive_words, STIMULUS_LOVE) = 2
    /\ WordHits(negative_words, STIMULUS_LOVE) = 0
    /\ (view.op = "perceive")
        => LET positive_hits == WordHits(positive_words, view.arg)
               negative_hits == WordHits(negative_words, view.arg)
               detected_emotion == view.value.detected_emotion
           IN  /\ (detected_emotion = "positive") <=> (positive_hits > negative_hits)
               /\ (detected_emotion = "negative") <=> (negative_hits > positive_hits)
               /\ (detected_emotion = "neutral") <=> (positive_hits = negative_hits)

\* C15 as stated: reading the last N history entries returns the last
\* min(N, length of the history) thoughts in generation order, for every
\* N >= 0, and changes nothing: no cycle starts, and the history, the
\* memories and the file stay as they are.
C15_RecentReadsLastN ==
    /\ [](view.op = "recent"
            => LET n == Min(view.arg, Len(thoughts))
               IN  view.value = SubSeq(thoughts, Len(thoughts) - n + 1, Len(thoughts)))
    /\ [][(view'.op = "recent")
            => (UNCHANGED <<thoughts, memories, memory_file, pc, calls>>)]_vars

\* the number of records the file holds
PersistedCount == IF memory_file.kind = "list" THEN Len(memory_file.data) ELSE 0

\* C16 as stated: the memory total of the personality snapshot is the number
\* of Memory records the persisted store holds, also after a store whose save
\* failed and after construction on a malformed store.
C16_Original ==
    (view.op = "summary") => (view.value.total_memories = PersistedCount)

\* C16 amended: the memory total of the personality snapshot is the number of
\* memories in the in-memory sequence, which is never less than the number
\* loaded at construction or written by the last successful save.
C16_TotalIsInMemoryCount ==
    (view.op = "summary")
        => /\ view.value.total_memories = Len(memories)
           /\ view.value.total_memories >= Len(persisted)

\* the snapshot was read after a store whose save failed: the total counts a
\* memory the file does not hold
C16_Witness ==
    /\ view.op = "summary"
    /\ Len(memories) = Len(persisted) + 1
    /\ view.value.total_memories = Len(persisted) + 1
    /\ view.value.total_memories # PersistedCount

\* the steps of task id in the loop's trace
StepsOf(id) == {k \in 1..Len(loop.trace) : loop.trace[k].task = id}

\* the thoughts of the tasks done, in the order in which the tasks finished
RECURSIVE ThoughtsOfDone(_)
ThoughtsOfDone(ids) ==
    IF ids = <<>> THEN <<>>
    ELSE loop.tasks[Head(ids)].thoughts \o ThoughtsOfDone(Tail(ids))

\* C17: think calls started together on one agent do not interleave: the
\* stages of a call run one after the other with no stage of another call in
\* between, each call finds the memories and the history as the calls before
\* it left them, and when all have returned the memories and the history are
\* those of the calls run one after the other in the order they finished.
C17_ThinkCallsDoNotInterleave ==
    /\ \A i, j, k \in 1..Len(loop.trace) :
        (i < j /\ j < k /\ loop.trace[i].task = loop.trace[k].task)
            => (loop.trace[j].task = loop.trace[i].task)
    /\ \A id \in 1..Len(loop.tasks) :
        LET steps == StepsOf(id)
        IN  \A k \in steps :
                loop.trace[k].stage = StageOrder[Cardinality({h \in steps : h <= k})]
    /\ (loop.running # 0)
        => LET t == loop.tasks[loop.running]
           IN  /\ memories = t.entry.memories
               /\ thoughts = t.entry.thoughts \o t.thoughts
               /\ memory_file = t.entry.memory_file
    /\ (loop.tasks # <<>> /\ Len(loop.done) = Len(loop.tasks))
        => LET first == loop.tasks[loop.done[1]].entry
           IN  /\ thoughts = first.thoughts \o ThoughtsOfDone(loop.done)
               /\ Len(memories) = Len(first.memories) + Len(loop.done)
               /\ IsPrefix(first.memories, memories)
               /\ \A k \in 1..Len(loop.done) :
                    LET t == loop.tasks[loop.done[k]]
                    IN  /\ memories[Len(first.memories) + k].content =
                               CONTENT_INPUT \o t.stimulus \o CONTENT_RESPONSE \o t.response
                        /\ t.result.value = t.response
                        /\ t.response = respond(t.thoughts)
                        /\ t.relevant_memories =
                               recall(SubSeq(memories, 1, Len(first.memories) + k - 1),
                                      perceive(t.stimulus))

\* two think calls started together have both returned, the second having
\* recalled the memory the first stored
C17_Witness ==
    /\ Len(loop.tasks) >= 2
    /\ Len(loop.done) = Len(loop.tasks)
    /\ \E k \in 1..Len(loop.tasks) :
        \E i \in 1..Len(loop.tasks[k].relevant_memories) :
            /\ loop.tasks[k].relevant_memories[i] \in
                   {memories[j] : j \in (Len(loop.tasks[loop.done[1]].entry.memories) + 1)..Len(memories)}

\* C18 as stated: whatever the persisted store held at construction, every
\* Thought contemplate produces has confidence in [0, 1] and emotional_valence
\* in [-1, 1], and every Memory store creates has emotional_impact in [-1, 1].
C18_ScoresInRange ==
    /\ \A i \in 1..Len(thoughts) :
        /\ 0 <= thoughts[i].confidence /\ thoughts[i].confidence <= Scale
        /\ 0 - Scale <= thoughts[i].emotional_valence /\ thoughts[i].emotional_valence <= Scale
    /\ (pc = "returned" /\ Len(memories) = Len(entry.memories) + 1)
        => /\ 0 - Scale <= Last(memories).emotional_impact
           /\ Last(memories).emotional_impact <= Scale

\* C19: contemplate returns at least one thought, and the first is an
\* observation of emotional_valence 0.1 whose confidence is 0.8 when the
\* perception's question_type is philosophical, 0.9 when it is inquiry, and
\* 0.7 for every other value and when the perception has no question_type.
C19_InitialReaction ==
    (view.op = "contemplate")
        => LET perception == view.arg.perception
               initial == view.value[1]
               kind == IF "question_type" \in DOMAIN perception
                       THEN perception.question_type ELSE "missing"
           IN  /\ view.value # <<>>
               /\ initial.thought_type = "observation"
               /\ initial.emotional_valence * 10 = Scale
               /\ (kind = "philosophical") => (initial.confidence * 10 = 8 * Scale)
               /\ (kind = "inquiry") => (initial.confidence * 10 = 9 * Scale)
               /\ (kind \in {"question", "statement", "missing"})
                    => (initial.confidence * 10 = 7 * Scale)

\* contemplate was called with a perception that has no question_type
C19_Witness ==
    /\ view.op = "contemplate"
    /\ "question_type" \notin DOMAIN view.arg.perception
    /\ view.value[1].confidence * 10 = 7 * Scale

\* `content`, split on whitespace, has a token that is one of the key concepts
SharesToken(content, key_concepts) ==
    \E i \in 1..Len(key_concepts) : InList(key_concepts[i], Split(content))

\* `found` are memories of `held` that pass `Shares`, some are found when
\* some memory passes, and none when none does or there is no key concept
FoundAmong(found, held, key_concepts, Shares(_, _)) ==
    /\ \A i \in 1..Len(found) :
        /\ InList(found[i], held)
        /\ Shares(found[i].content, key_concepts)
    /\ (\E i \in 1..Len(held) : Shares(held[i].content, key_concepts)) => (found # <<>>)
    /\ (\A i \in 1..Len(held) : ~Shares(held[i].content, key_concepts)) => (found = <<>>)
    /\ (key_concepts = <<>>) => (found = <<>>)

\* C20 as stated: the memories recall returns share a token of their content,
\* split on whitespace, with the key concepts; the result is non-empty when
\* some stored memory shares one and empty when none does or key_concepts is
\* empty; recall leaves the memories as they are.
C20_Original ==
    /\ [](/\ (pc = "contemplate")
                => FoundAmong(frame.relevant_memories, memories,
                              frame.perception.key_concepts, SharesToken)
          /\ (view.op = "recall")
                => FoundAmong(view.value, memories, extract_concepts(view.arg), SharesToken))
    /\ [][((pc = "recall" /\ pc' = "contemplate") \/ view'.op = "recall")
            => UNCHANGED <<memories, memory_file, persisted>>]_vars

\* the lower-cased `content`, split on whitespace, has a token that is one of
\* the key concepts
SharesLoweredToken(content, key_concepts) ==
    \E i \in 1..Len(key_concepts) : InList(key_concepts[i], Split(Lower(content)))

\* C20 amended: the same with the content lower-cased before it is split.
C20_RecallMatchesLoweredTokens ==
    /\ [](/\ (pc = "contemplate")
                => FoundAmong(frame.relevant_memories, memories,
                              frame.perception.key_concepts, SharesLoweredToken)
          /\ (view.op = "recall")
                => FoundAmong(view.value, memories, extract_concepts(view.arg),
                              SharesLoweredToken))
    /\ [][((pc = "recall" /\ pc' = "contemplate") \/ view'.op = "recall")
            => UNCHANGED <<memories, memory_file, persisted>>]_vars

\* recall has returned a memory that shares a token with the key concepts
\* only once its content is lower-cased
C20_Witness ==
    /\ view.op = "recall"
    /\ view.value # <<>>
    /\ \E i \in 1..Len(view.value) :
        /\ SharesLoweredToken(view.value[i].content, extract_concepts(view.arg))
        /\ ~SharesToken(view.value[i].content, extract_concepts(view.arg))

\* the greatest element of a non-empty set of numbers
Greatest(S) == CHOOSE x \in S : \A y \in S : y <= x

\* the sum of f over its domain 1..n
RECURSIVE Total(_, _)
Total(f, n) == IF n = 0 THEN 0 ELSE f[n] + Total(f, n - 1)

\* C21: the importance store assigns is min(1.0, 0.3*complexity + 0.4*(greatest
\* confidence of the thoughts, 0 if none) + 0.3*(greatest absolute
\* emotional_valence, 0 if none)), and the emotional_impact it assigns is the
\* arithmetic mean of the thoughts' emotional_valence, 0.0 if there are none.
C21_ImportanceAndImpact ==
    (calls > 0 /\ memories # <<>>)
        => LET given == frame.thoughts
               n == Len(given)
               stored == Last(memories)
               peak_confidence ==
                   IF n = 0 THEN 0 ELSE Greatest({given[i].confidence : i \in 1..n})
               peak_intensity ==
                   IF n = 0 THEN 0
                   ELSE Greatest({Abs(given[i].emotional_valence) : i \in 1..n})
               weighted ==
                   3 * frame.perception.complexity + 4 * peak_confidence + 3 * peak_intensity
           IN  /\ stored.importance = IF weighted > ImportanceOne THEN ImportanceOne ELSE weighted
               /\ (n = 0) => (stored.emotional_impact = 0)
               /\ (n > 0) => (stored.emotional_impact * n =
                                 Total([i \in 1..n |-> given[i].emotional_valence], n))

\* store was given two thoughts of different valence, one of negative
\* confidence, and the weighted sum was cut to 1.0
C21_Witness ==
    /\ calls > 0
    /\ memories # <<>>
    /\ Len(frame.thoughts) = 2
    /\ frame.thoughts[1].emotional_valence # frame.thoughts[2].emotional_valence
    /\ frame.thoughts[1].confidence < 0
    /\ Last(memories).importance = ImportanceOne

\* C22: when recall found memories, the second thought contemplate emits is a
\* reflection of confidence 0.8 whose emotional_valence is half the
\* emotional_impact of the first recalled memory, and in a think cycle that
\* memory is a candidate with the greatest (importance, timestamp) key; when
\* recall found none, contemplate emits no reflection and no substitute for it.
C22_ReflectionFollowsFirstRecalled ==
    (pc = "respond")
        => LET recalled == frame.relevant_memories
               generated == frame.thoughts
           IN  /\ (recalled # <<>>)
                    => /\ Len(generated) >= 2
                       /\ generated[2].thought_type = "reflection"
                       /\ generated[2].confidence * 10 = 8 * Scale
                       /\ generated[2].emotional_valence * 2 = recalled[1].emotional_impact
                       /\ \A i \in 1..Len(generated) :
                            (generated[i].thought_type = "reflection") => (i = 2)
                       /\ \E c \in Candidates(memories, frame.perception.key_concepts) :
                            memories[c] = recalled[1]
                       /\ \A c \in Candidates(memories, frame.perception.key_concepts) :
                            ~KeyLess(recalled[1], memories[c])
               /\ (recalled = <<>>)
                    => \A i \in 1..Len(generated) :
                            /\ generated[i].thought_type # "reflection"
                            /\ generated[i].content # NO_EXPERIENCE

\* contemplate has reflected on the first of several recalled memories whose
\* emotional_impact differ
C22_Witness ==
    /\ pc = "respond"
    /\ Len(frame.relevant_memories) >= 2
    /\ frame.relevant_memories[1].emotional_impact
           # Last(frame.relevant_memories).emotional_impact
    /\ frame.thoughts[2].thought_type = "reflection"
    /\ frame.thoughts[2].emotional_valence * 2 = frame.relevant_memories[1].emotional_impact

\* C23 as stated: respond appends a second clause iff a thought at another
\* position than the main thought's has confidence above 0.7, and builds it
\* from the lower-cased content of the earliest such thought; the remaining
\* thoughts are told from the main thought by position, so a thought equal to
\* it in every field still counts.
C23_SecondClauseByPosition ==
    (view.op = "respond" /\ view.arg # <<>>)
        => LET given == view.arg
               reply == view.value
               main == CHOOSE m \in 1..Len(given) :
                           /\ \A j \in 1..Len(given) : given[j].confidence <= given[m].confidence
                           /\ \A j \in 1..(m - 1) : given[j].confidence < given[m].confidence
               others == {j \in 1..Len(given) : j # main /\ given[j].confidence * 10 > 7 * Scale}
               opening == RESPONSE_PREFIX \o Lower(given[main].content)
           IN  IF others = {}
               THEN reply = opening
               ELSE LET first == CHOOSE j \in others : \A k \in others : j <= k
                    IN  reply = opening \o <<" ">> \o SUPPORT_PREFIX \o Lower(given[first].content)

\* C24: after a crash in the middle of a save the file holds no list (a list
\* it held before the save is gone), and an agent constructed on it
\* afterwards holds no memory, whatever had been persisted before.
C24_CrashLosesPersistedMemories ==
    (saved = "crashed")
        => /\ memory_file.kind = "garbage"
           /\ (entry.memory_file.kind = "list") => (memory_file # entry.memory_file)
           /\ (agent = "ready") => (memories = <<>>)

\* an agent was constructed after a crash in a save that followed a
\* successful save, and holds nothing
C24_Witness ==
    /\ saved = "crashed"
    /\ agent = "ready"
    /\ entry.memory_file.kind = "list"
    /\ entry.memory_file.data # <<>>
    /\ load_memories(entry.memory_file, <<>>).memories = entry.memories
    /\ entry.memories # <<>>
    /\ memories = <<>>

\* the records of the file, as a set
FileRecords(file) == IF file.kind = "list" THEN {file.data[i] : i \in 1..Len(file.data)} ELSE {}

\* the first agent holds a memory the second agent does not hold
PeerLacksOne(held, other) ==
    \E i \in 1..Len(held) : \A j \in 1..Len(other) : other[j] # held[i]

\* C25: a successful save of either agent leaves the file holding exactly the
\* saving agent's own list.  So when the file holds the first agent's list,
\* written by its own successful save, and the second agent, which lacks one
\* of those memories, then saves successfully, that memory is no longer in
\* the file and the file differs from the first agent's list.
C25_SaveWritesOwnListOnly ==
    [][/\ (peer'.calls # peer.calls /\ peer'.saved = "ok")
            => memory_file' = File("list", Serialized(peer'.memories))
       /\ (calls' # calls /\ saved' = "ok")
            => memory_file' = File("list", Serialized(memories'))
       /\ (/\ peer'.calls # peer.calls
           /\ peer'.saved = "ok"
           /\ saved = "ok"
           /\ memory_file = File("list", Serialized(memories))
           /\ PeerLacksOne(memories, peer.memories))
            => /\ \E i \in 1..Len(memories) :
                    MemoryToJson(memories[i]) \notin FileRecords(memory_file')
               /\ memory_file' # File("list", Serialized(memories'))]_vars

\* the first agent's memory was saved and the second agent's later save,
\* successful too, has removed it from the file
C25_Witness ==
    /\ agent = "ready"
    /\ saved = "ok"
    /\ persisted = memories
    /\ memories # <<>>
    /\ peer.saved = "ok"
    /\ memory_file = File("list", Serialized(peer.memories))
    /\ \E i \in 1..Len(memories) : MemoryToJson(memories[i]) \notin FileRecords(memory_file)
    /\ memory_file # File("list", Serialized(memories))

\* a is a final segment of b
IsSuffix(a, b) == Len(a) <= Len(b) /\ SubSeq(b, Len(b) - Len(a) + 1, Len(b)) = a

\* the history after a think call that returned: what the call found, then
\* the thoughts contemplate returned, which the accessor returns last
HistoryKeepsGenerated ==
    /\ Len(frame.thoughts) \in {3, 4}
    /\ thoughts = entry.thoughts \o frame.thoughts
    /\ IsSuffix(frame.thoughts, get_recent_thoughts(thoughts, 5))

\* what C26 says of the three kinds of cycle, but for the memories
HistoryOfCycle ==
    /\ (pc = "returned" /\ raised \in {"respond", "store", "store_log"})
            => (result.value = FALLBACK_REPLY /\ HistoryKeepsGenerated)
    /\ (pc = "returned" /\ raised \in {"perceive", "recall"})
            => (result.value = FALLBACK_REPLY /\ thoughts = entry.thoughts)
    /\ (pc = "returned" /\ raised = "none")
            => (result.value = frame.response /\ HistoryKeepsGenerated)

\* C26 as stated: after a cycle that failed in respond or in store the thoughts
\* of the cycle stay in the history and no memory was recorded; after one that
\* failed in perceive or recall the history is as before; a successful cycle
\* adds exactly the thoughts contemplate returned.
C26_Original ==
    /\ HistoryOfCycle
    /\ (pc = "returned" /\ raised \in {"respond", "store", "store_log"})
            => (memories = entry.memories)

\* C26 amended: the same, with the memory staying recorded when store failed
\* at its closing statement, after the append and the save.
C26_HistoryNotRolledBack ==
    /\ HistoryOfCycle
    /\ (pc = "returned" /\ raised \in {"respond", "store"})
            => (memories = entry.memories)
    /\ (pc = "returned" /\ raised = "store_log")
            => (Len(memories) = Len(entry.memories) + 1 /\ IsPrefix(entry.memories, memories))

\* a second cycle failed in respond and its thoughts follow the first cycle's
C26_Witness ==
    /\ pc = "returned"
    /\ raised = "respond"
    /\ result.value = FALLBACK_REPLY
    /\ entry.thoughts # <<>>
    /\ Len(frame.thoughts) >= 3
    /\ thoughts = entry.thoughts \o frame.thoughts
    /\ memories = entry.memories

\* s has a whitespace-delimited word of more than 4 characters
HasLongWord(s) == \E i \in 1..Len(Split(s)) : Len(Split(s)[i]) > 4

\* held has a memory store built for the stimulus s
StoredFor(s, held) ==
    \E i \in 1..Len(held) : IsPrefix(CONTENT_INPUT \o s \o CONTENT_RESPONSE, held[i].content)

\* C27: once a memory of a think call on the stimulus s is held and s has a
\* word of more than 4 characters, recall in a later think call on s returns at
\* least one memory; and contemplate in think returns 4 thoughts, the second a
\* reflection, when recall returned a memory, and 3 when it returned none.
C27_RepeatedStimulusIsRecalled ==
    /\ (/\ Len(stages) >= 2
        /\ HasLongWord(frame.stimulus)
        /\ StoredFor(frame.stimulus, entry.memories))
            => (frame.relevant_memories # <<>>)
    /\ (Len(stages) >= 3)
            => IF frame.relevant_memories # <<>>
               THEN Len(frame.thoughts) = 4 /\ frame.thoughts[2].thought_type = "reflection"
               ELSE /\ Len(frame.thoughts) = 3
                    /\ \A i \in 1..3 : frame.thoughts[i].thought_type # "reflection"

\* the second think call on a stimulus, on an agent that held nothing before
\* the first, has recalled the memory of the first and has 4 thoughts
C27_Witness ==
    /\ calls = 2
    /\ pc = "returned"
    /\ raised = "none"
    /\ Len(entry.memories) = 1
    /\ StoredFor(frame.stimulus, entry.memories)
    /\ IsPrefix(CONTENT_INPUT \o frame.stimulus \o CONTENT_RESPONSE \o RESPONSE_PREFIX,
                entry.memories[1].content)
    /\ frame.relevant_memories = entry.memories
    /\ Len(frame.thoughts) = 4
    /\ result.value = frame.response

\* a first think call on an agent that holds nothing: recall is empty, 3 thoughts
C27_WitnessEmpty ==
    /\ pc = "returned"
    /\ raised = "none"
    /\ entry.memories = <<>>
    /\ frame.relevant_memories = <<>>
    /\ Len(frame.thoughts) = 3
====
